---- MODULE Spec2Model ----
(***************************************************************************)
(* Online feedback learning of the TV recommender's Bayesian network:      *)
(* the pseudo-count tables of feedback.py, the CPDs they are normalised    *)
(* into, their persistence (save_cpt_counts / load_cpt_counts) and the     *)
(* start-up and shutdown of main.py that reload them.                       *)
(*                                                                         *)
(* Python floats are modelled as exact rationals <<numerator, denominator>>*)
(* in lowest terms; Python None is the value PyNone.                       *)
(***************************************************************************)
EXTENDS Integers, Sequences, FiniteSets, TLC

\* ------------------------------------------------------------------------
\* Bounds of the model
\* ------------------------------------------------------------------------
\* feedback events in one behaviour
MaxEvents == 2
\* program runs (start ... exit) in one behaviour
MaxSessions == 2
\* feedback turns (FEEDBACK_POS, FEEDBACK_NEG, ALTERNATIVE) in one behaviour
\* of the session
MaxTurns == 1

\* ------------------------------------------------------------------------
\* Program constants
\* ------------------------------------------------------------------------
\* learning_rate passed by main() to apply_feedback
LearningRate == 50
\* virtual_sample_size passed by main() to initialize_cpt_counts
VirtualSampleSize == 100

\* ------------------------------------------------------------------------
\* Exact rational arithmetic (the float operations of feedback.py)
\* ------------------------------------------------------------------------
RECURSIVE GCD(_, _)
GCD(a, b) == IF b = 0 THEN a ELSE GCD(b, a % b)

Abs(n) == IF n < 0 THEN -n ELSE n

\* n/d in lowest terms, d > 0
Norm(n, d) == LET g == GCD(Abs(n), d) IN <<n \div g, d \div g>>

Rat(n) == <<n, 1>>

RAdd(x, y) ==
    LET g == GCD(x[2], y[2])
    IN  Norm(x[1] * (y[2] \div g) + y[1] * (x[2] \div g), x[2] * (y[2] \div g))

RSub(x, y) == RAdd(x, <<-y[1], y[2]>>)

\* product, cancelling across before multiplying
RMul(x, y) ==
    IF x[1] = 0 \/ y[1] = 0 THEN <<0, 1>>
    ELSE LET g1 == GCD(Abs(x[1]), y[2])
             g2 == GCD(Abs(y[1]), x[2])
         IN  <<(x[1] \div g1) * (y[1] \div g2), (x[2] \div g2) * (y[2] \div g1)>>

\* x / y for y > 0
RDiv(x, y) == RMul(x, <<y[2], y[1]>>)

\* a/b < c/d for a, c >= 0 and b, d > 0, by continued-fraction expansion
RECURSIVE FracLess(_, _, _, _)
FracLess(a, b, c, d) ==
    LET q1 == a \div b
        q2 == c \div d
        r1 == a % b
        r2 == c % d
    IN  IF q1 # q2 THEN q1 < q2
        ELSE IF r2 = 0 THEN FALSE
        ELSE IF r1 = 0 THEN TRUE
        ELSE FracLess(d, r2, b, r1)

\* x < y for rationals of any sign
RLess(x, y) ==
    IF x[1] < 0 /\ y[1] >= 0 THEN TRUE
    ELSE IF x[1] >= 0 /\ y[1] < 0 THEN FALSE
    ELSE IF x[1] < 0 THEN FracLess(-y[1], y[2], -x[1], x[2])
    ELSE FracLess(x[1], x[2], y[1], y[2])

RLeq(x, y) == ~RLess(y, x)

\* Python min(x, y) and max(x, y)
RMin(x, y) == IF RLess(y, x) THEN y ELSE x
RMax(x, y) == IF RLess(x, y) THEN y ELSE x

Range(s) == {s[i] : i \in DOMAIN s}

\* sum of f over the finite set S
RECURSIVE RSum(_, _)
RSum(f, S) ==
    IF S = {} THEN <<0, 1>>
    ELSE LET x == CHOOSE y \in S : TRUE
         IN  RAdd(f[x], RSum(f, S \ {x}))

\* ------------------------------------------------------------------------
\* The network: variables, domains and parents of the fitted model
\* ------------------------------------------------------------------------
\* Python None
PyNone == "<None>"

\* the (state, probability) pair of a ranking that fetch_real_content stores
\* as bn_result["ProgramGenre"] when it falls back to an alternative genre
AltGenreEntry == "('drama', p)"

\* the rankings hold (state, probability) pairs; the text of such a pair is
\* what a label becomes when a pair is stored in place of a state
EntryLabel ==
    [s \in {"movie", "news", "comedy", "drama", "horror"} |->
        CASE s = "movie"  -> "('movie', p)"
          [] s = "news"   -> "('news', p)"
          [] s = "comedy" -> "('comedy', p)"
          [] s = "drama"  -> AltGenreEntry
          [] s = "horror" -> "('horror', p)"]

EntryLabels == {EntryLabel[s] : s \in DOMAIN EntryLabel}

Nodes == {"UserAge", "TimeOfDay", "ProgramType", "ProgramGenre"}

DomainOf(v) ==
    CASE v = "UserAge"      -> <<"young", "senior">>
      [] v = "TimeOfDay"    -> <<"morning", "night">>
      [] v = "ProgramType"  -> <<"movie", "news">>
      [] v = "ProgramGenre" -> <<"comedy", "drama", "horror">>

ParentsOf(v) ==
    CASE v = "UserAge"      -> <<>>
      [] v = "TimeOfDay"    -> <<>>
      [] v = "ProgramType"  -> <<"UserAge", "TimeOfDay">>
      [] v = "ProgramGenre" -> <<"ProgramType">>

AllLabels == UNION {Range(DomainOf(v)) : v \in Nodes}

\* itertools.product(*[state_names[p] for p in parents]) as a set of tuples
ParentCombinations(parents, state_names) ==
    {t \in [1..Len(parents) -> AllLabels] :
        \A i \in 1..Len(parents) : t[i] \in Range(state_names[parents[i]])}

\* the model holds no CPD for a variable (between remove_cpds and add_cpds)
NoCPD == [variable |-> PyNone]

\* a TabularCPD: variables = <<variable>> \o parents, state_names, and one
\* column of probabilities per parent combination
TabularCPD(variable, parents, state_names, values) ==
    [variable    |-> variable,
     variables   |-> <<variable>> \o parents,
     state_names |-> state_names,
     values      |-> values]

StateNamesOf(v) ==
    [w \in {v} \cup Range(ParentsOf(v)) |-> DomainOf(w)]

\* a fitted CPD of variable v whose column for parent combination k is col[k]
FittedCPD(v, col) ==
    TabularCPD(v, ParentsOf(v), StateNamesOf(v),
               [k \in ParentCombinations(ParentsOf(v), StateNamesOf(v)) |-> col[k]])

\* columns the Bayesian estimator can produce: Dirichlet smoothing makes every
\* entry strictly positive
Half2 == [s \in {"young", "senior", "morning", "night", "movie", "news"} |-> <<1, 2>>]

TypeColumnRare == [s \in {"movie", "news"} |->
                     IF s = "movie" THEN <<1, 200>> ELSE <<199, 200>>]
TypeColumnEven == [s \in {"movie", "news"} |->
                     IF s = "movie" THEN <<3, 5>> ELSE <<2, 5>>]
GenreColumnMovie == [s \in {"comedy", "drama", "horror"} |->
                     CASE s = "comedy" -> <<1, 2>>
                       [] s = "drama"  -> <<3, 10>>
                       [] s = "horror" -> <<1, 5>>]
GenreColumnNews == [s \in {"comedy", "drama", "horror"} |->
                     CASE s = "comedy" -> <<3, 250>>
                       [] s = "drama"  -> <<1, 100>>
                       [] s = "horror" -> <<489, 500>>]

TypeColumns == {TypeColumnRare, TypeColumnEven}

\* the models build_and_fit_model may have pickled into model.pkl
FittedModels ==
    {[v \in Nodes |->
        CASE v = "UserAge"      -> FittedCPD(v, [k \in {<<>>} |->
                                     [s \in {"young", "senior"} |-> Half2[s]]])
          [] v = "TimeOfDay"    -> FittedCPD(v, [k \in {<<>>} |->
                                     [s \in {"morning", "night"} |-> Half2[s]]])
          [] v = "ProgramType"  -> FittedCPD(v,
                                     [k \in ParentCombinations(ParentsOf(v), StateNamesOf(v)) |->
                                        IF k = <<"senior", "night">> THEN tc ELSE TypeColumnEven])
          [] v = "ProgramGenre" -> FittedCPD(v,
                                     [k \in ParentCombinations(ParentsOf(v), StateNamesOf(v)) |->
                                        IF k = <<"movie">> THEN GenreColumnMovie
                                        ELSE GenreColumnNews])]
     : tc \in TypeColumns}

\* ------------------------------------------------------------------------
\* feedback.py
\* ------------------------------------------------------------------------
\* dict.get(k): the value, or None when the key is missing
DictGet(d, k) == IF k \in DOMAIN d THEN d[k] ELSE PyNone

\* a defaultdict(float) read: the count, or 0.0 for a label not in the row
CountOf(row, label) == IF label \in DOMAIN row THEN row[label] ELSE <<0, 1>>

\* sum(counts[parent_state].values())
RowTotal(row) == RSum(row, DOMAIN row)

\* counts[parent_state] of a defaultdict: the row, or an empty row
RowOf(counts, parent_state) ==
    IF parent_state \in DOMAIN counts THEN counts[parent_state] ELSE <<>>

\* the counts taken to be the probabilities themselves, without the virtual
\* sample size
initialize_cpt_counts_Unscaled(m, virtual_sample_size) ==
    [v \in {w \in DOMAIN m : m[w] # NoCPD} |->
        LET cpd == m[v]
            parents == Tail(cpd.variables)
            state_names == cpd.state_names
        IN  [parents     |-> parents,
             state_names |-> state_names,
             counts      |->
                [parent_state \in ParentCombinations(parents, state_names) |->
                    [state \in Range(state_names[v]) |->
                        cpd.values[parent_state][state]]]]]

initialize_cpt_counts(m, virtual_sample_size) ==
    [v \in {w \in DOMAIN m : m[w] # NoCPD} |->
        LET cpd == m[v]
            parents == Tail(cpd.variables)
            state_names == cpd.state_names
        IN  [parents     |-> parents,
             state_names |-> state_names,
             counts      |->
                [parent_state \in ParentCombinations(parents, state_names) |->
                    [state \in Range(state_names[v]) |->
                        RMul(cpd.values[parent_state][state],
                             Rat(virtual_sample_size))]]]]

build_cpd_from_counts(variable, cpt_info) ==
    LET parents == cpt_info.parents
        state_names == cpt_info.state_names
        counts == cpt_info.counts
        var_states == Range(state_names[variable])
    IN  TabularCPD(variable, parents, state_names,
            [parent_state \in ParentCombinations(parents, state_names) |->
                LET row == RowOf(counts, parent_state)
                    total == RowTotal(row)
                IN  [v \in var_states |->
                        IF RLess(<<0, 1>>, total)
                        THEN RDiv(CountOf(row, v), total)
                        ELSE <<0, 1>>]])

\* build_parent_state testing `value is not None` only
build_parent_state_NoneOnly(parents, attrs) ==
    [i \in 1..Len(parents) |-> DictGet(attrs, parents[i])]

build_parent_state(parents, attrs) ==
    [i \in 1..Len(parents) |->
        LET value == DictGet(attrs, parents[i])
        IN  IF value \notin {PyNone, "", "null"} THEN value ELSE PyNone]

\* the accepted branch written with `=` in place of `+=`
ReinforcedRow_Assign(row, label, learning_rate) ==
    [l \in DOMAIN row \cup {label} |->
        IF l = label THEN Rat(learning_rate) ELSE row[l]]

\* the row after `row[label] += learning_rate`
ReinforcedRow(row, label, learning_rate) ==
    [l \in DOMAIN row \cup {label} |->
        IF l = label THEN RAdd(CountOf(row, l), Rat(learning_rate))
        ELSE row[l]]

\* penalty = min(learning_rate * 0.5, current * 0.2)
Penalty(current, learning_rate) ==
    RMin(RMul(Rat(learning_rate), <<1, 2>>), RMul(current, <<1, 5>>))

\* the rejected branch giving every alternative the whole penalty
PenalisedRow_WholePenalty(row, label, all_states, learning_rate) ==
    LET current == CountOf(row, label)
        penalty == Penalty(current, learning_rate)
        alternatives == all_states \ {label}
    IN  [l \in DOMAIN row \cup {label} \cup alternatives |->
            IF l = label THEN RMax(Rat(1), RSub(current, penalty))
            ELSE IF l \in alternatives THEN RAdd(CountOf(row, l), penalty)
            ELSE row[l]]

\* the row after the rejected branch: the label is penalised with a floor of
\* 1 and the penalty is shared among the other states of the variable
PenalisedRow(row, label, all_states, learning_rate) ==
    LET current == CountOf(row, label)
        penalty == Penalty(current, learning_rate)
        alternatives == all_states \ {label}
        boost_per_alt == IF alternatives # {}
                         THEN RDiv(penalty, Rat(Cardinality(alternatives)))
                         ELSE <<0, 1>>
    IN  [l \in DOMAIN row \cup {label} \cup alternatives |->
            IF l = label THEN RMax(Rat(1), RSub(current, penalty))
            ELSE IF l \in alternatives THEN RAdd(CountOf(row, l), boost_per_alt)
            ELSE row[l]]

\* the update without its `parent_state not in cpt["counts"]` return: the
\* defaultdict makes a row for the unseen key
UpdateCPD_NoKeyCheck(m, cc, variable, label, parent_state, feedback, learning_rate) ==
    LET cpt == cc[variable]
        row == RowOf(cpt.counts, parent_state)
        newRow ==
            IF feedback = "accepted"
            THEN ReinforcedRow(row, label, learning_rate)
            ELSE IF feedback = "rejected"
            THEN PenalisedRow(row, label,
                              Range(cpt.state_names[variable]), learning_rate)
            ELSE row
        newCpt == [cpt EXCEPT !.counts =
                      [k \in DOMAIN cpt.counts \cup {parent_state} |->
                          IF k = parent_state THEN newRow ELSE cpt.counts[k]]]
        new_cpd == build_cpd_from_counts(variable, newCpt)
    IN  [model      |-> [m EXCEPT ![variable] = new_cpd],
         cpt_counts |-> [cc EXCEPT ![variable] = newCpt]]

\* the body shared by update_program_type_cpd and update_program_genre_cpd
\* once the parent state is built: returns the new model and count tables
UpdateCPD(m, cc, variable, label, parent_state, feedback, learning_rate) ==
    LET cpt == cc[variable]
    IN  IF parent_state \notin DOMAIN cpt.counts
        THEN [model |-> m, cpt_counts |-> cc]
        ELSE LET row == cpt.counts[parent_state]
                 newRow ==
                    IF feedback = "accepted"
                    THEN ReinforcedRow(row, label, learning_rate)
                    ELSE IF feedback = "rejected"
                    THEN PenalisedRow(row, label,
                                      Range(cpt.state_names[variable]), learning_rate)
                    ELSE row
                 newCpt == [cpt EXCEPT !.counts =
                               [k \in DOMAIN cpt.counts |->
                                   IF k = parent_state THEN newRow ELSE cpt.counts[k]]]
                 new_cpd == build_cpd_from_counts(variable, newCpt)
             IN  [model      |-> [m EXCEPT ![variable] = new_cpd],
                  cpt_counts |-> [cc EXCEPT ![variable] = newCpt]]

\* the update of ProgramType moving counts by learning_rate * 0.5, the cap of
\* the rejected branch
update_program_type_cpd_HalfRate(m, cc, program_type, attrs, feedback, learning_rate) ==
    UpdateCPD(m, cc, "ProgramType", program_type,
              build_parent_state(cc["ProgramType"].parents, attrs),
              feedback, learning_rate \div 2)

update_program_type_cpd(m, cc, program_type, attrs, feedback, learning_rate) ==
    UpdateCPD(m, cc, "ProgramType", program_type,
              build_parent_state(cc["ProgramType"].parents, attrs),
              feedback, learning_rate)

update_program_genre_cpd(m, cc, program_type, program_genre, attrs, feedback, learning_rate) ==
    LET attrs_with_type ==
            [a \in DOMAIN attrs \cup {"ProgramType"} |->
                IF a = "ProgramType" THEN program_type ELSE attrs[a]]
    IN  UpdateCPD(m, cc, "ProgramGenre", program_genre,
                  build_parent_state(cc["ProgramGenre"].parents, attrs_with_type),
                  feedback, learning_rate)

\* Python truthiness of a label: None and "" are falsy
Falsy(x) == x \in {PyNone, ""}

\* apply_feedback without its `not program_type or not program_genre` return
apply_feedback_NoLabelGuard(m, cc, state, learning_rate) ==
    LET feedback == DictGet(state, "user_feedback")
        last_rec == state.last_recommendation
        unchanged == [model |-> m, cpt_counts |-> cc]
    IN  IF feedback \notin {"accepted", "rejected"} THEN unchanged
        ELSE IF DOMAIN last_rec = {} THEN unchanged
        ELSE LET program_type == DictGet(last_rec, "ProgramType")
                 program_genre == DictGet(last_rec, "ProgramGenre")
                 attrs == state.atributes_bn
             IN  IF FALSE THEN unchanged
                 ELSE LET r1 == IF "ProgramType" \in DOMAIN cc
                                THEN update_program_type_cpd(m, cc,
                                        program_type, attrs, feedback, learning_rate)
                                ELSE unchanged
                      IN  IF "ProgramGenre" \in DOMAIN r1.cpt_counts
                          THEN update_program_genre_cpd(r1.model, r1.cpt_counts,
                                   program_type, program_genre, attrs,
                                   feedback, learning_rate)
                          ELSE r1

\* apply_feedback(model, cc, state, learning_rate): the model and
\* count tables it leaves
apply_feedback(m, cc, state, learning_rate) ==
    LET feedback == DictGet(state, "user_feedback")
        last_rec == state.last_recommendation
        unchanged == [model |-> m, cpt_counts |-> cc]
    IN  IF feedback \notin {"accepted", "rejected"} THEN unchanged
        ELSE IF DOMAIN last_rec = {} THEN unchanged
        ELSE LET program_type == DictGet(last_rec, "ProgramType")
                 program_genre == DictGet(last_rec, "ProgramGenre")
                 attrs == state.atributes_bn
             IN  IF Falsy(program_type) \/ Falsy(program_genre) THEN unchanged
                 ELSE LET r1 == IF "ProgramType" \in DOMAIN cc
                                THEN update_program_type_cpd(m, cc,
                                        program_type, attrs, feedback, learning_rate)
                                ELSE unchanged
                      IN  IF "ProgramGenre" \in DOMAIN r1.cpt_counts
                          THEN update_program_genre_cpd(r1.model, r1.cpt_counts,
                                   program_type, program_genre, attrs,
                                   feedback, learning_rate)
                          ELSE r1

\* ------------------------------------------------------------------------
\* Persistence of the count tables (feedback.py) as a JSON file
\* ------------------------------------------------------------------------
\* repr() of a tuple element, as a sequence of characters groups: a str is
\* quoted, None is the bare word
PyRepr(x) == IF x = PyNone THEN <<"None">> ELSE <<"'", x, "'">>

RECURSIVE JoinReprs(_)
JoinReprs(k) ==
    IF Len(k) = 0 THEN <<>>
    ELSE IF Len(k) = 1 THEN PyRepr(k[1])
    ELSE PyRepr(k[1]) \o <<", ">> \o JoinReprs(Tail(k))

\* str(k) of a tuple k: "()", "('a',)", "('a', None)"
PyStr(k) ==
    <<"(">> \o JoinReprs(k) \o (IF Len(k) = 1 THEN <<",">> ELSE <<>>) \o <<")">>

\* eval() of the text of a tuple display, read left to right from position i
RECURSIVE EvalElems(_, _)
EvalElems(text, i) ==
    IF i > Len(text) \/ text[i] = ")" THEN <<>>
    ELSE IF text[i] \in {", ", ","} THEN EvalElems(text, i + 1)
    ELSE IF text[i] = "None" THEN <<PyNone>> \o EvalElems(text, i + 1)
    ELSE IF text[i] = "'" THEN <<text[i + 1]>> \o EvalElems(text, i + 3)
    ELSE EvalElems(text, i + 1)

PyEval(text) == EvalElems(text, 2)

\* keys json.dump accepts in an object: str (None too, never used as a label)
JsonKeyOK(label) == label \notin EntryLabels

\* the file does not exist / holds text that is not valid JSON
NoFile == [kind |-> "absent"]
BrokenFile == [kind |-> "broken"]

\* the dict save_cpt_counts builds before writing it
Serializable(cc) ==
    [var \in DOMAIN cc |->
        [parents     |-> cc[var].parents,
         state_names |-> cc[var].state_names,
         counts      |->
            [k_str \in {PyStr(k) : k \in DOMAIN cc[var].counts} |->
                cc[var].counts[CHOOSE k \in DOMAIN cc[var].counts : PyStr(k) = k_str]]]]

\* save_cpt_counts(cpt_counts, filepath): the content of the file afterwards.
\* json.dump raises TypeError on a row that has a tuple among its keys, after
\* open(filepath, 'w') has truncated the file and part of the text is written
save_cpt_counts(cc) ==
    IF \A var \in DOMAIN cc : \A k \in DOMAIN cc[var].counts :
          \A label \in DOMAIN cc[var].counts[k] : JsonKeyOK(label)
    THEN [kind |-> "json", data |-> Serializable(cc)]
    ELSE BrokenFile

\* load_cpt_counts(filepath) on a file holding valid JSON
load_cpt_counts(file) ==
    [var \in DOMAIN file.data |->
        LET info == file.data[var]
        IN  [parents     |-> info.parents,
             state_names |-> info.state_names,
             counts      |->
                [k_tuple \in {PyEval(k_str) : k_str \in DOMAIN info.counts} |->
                    info.counts[CHOOSE k_str \in DOMAIN info.counts :
                                    PyEval(k_str) = k_tuple]]]]

\* ------------------------------------------------------------------------
\* bn_recommender.py and LLM_agent.py: inference
\* ------------------------------------------------------------------------
\* list.index(x) of a ranking: the position of the pair equal to x; a plain
\* state is equal to no pair.  0 stands for ValueError
RankingIndex(ranking, x) ==
    IF \E i \in 1..Len(ranking) : EntryLabel[ranking[i][1]] = x
    THEN CHOOSE i \in 1..Len(ranking) :
            /\ EntryLabel[ranking[i][1]] = x
            /\ \A j \in 1..(i - 1) : EntryLabel[ranking[j][1]] # x
    ELSE 0

\* tolerance of the column sums in check_model (absolute 0.01, relative 1e-5)
SumTolerance == <<1001, 100000>>

\* core.check_model(): every column of every CPD sums to 1 within tolerance
check_model(m) ==
    \A v \in DOMAIN m :
        /\ m[v] # NoCPD
        /\ \A k \in DOMAIN m[v].values :
              LET total == RSum(m[v].values[k], Range(m[v].state_names[v]))
                  diff == IF RLess(total, <<1, 1>>) THEN RSub(<<1, 1>>, total)
                          ELSE RSub(total, <<1, 1>>)
              IN  RLeq(diff, SumTolerance)

\* the nodes a query keeps: the queried and observed variables and their
\* ancestors
RECURSIVE Ancestral(_, _)
Ancestral(m, vs) ==
    LET more == vs \cup UNION {Range(Tail(m[v].variables)) : v \in vs}
    IN  IF more = vs THEN vs ELSE Ancestral(m, more)

\* dict with key k set to v
SetKey(d, k, v) == [x \in DOMAIN d \cup {k} |-> IF x = k THEN v ELSE d[x]]

NodeOrder == <<"UserAge", "TimeOfDay", "ProgramType", "ProgramGenre">>

\* sum of the sequence of rationals xs from position i on
RECURSIVE SeqSum(_, _)
SeqSum(xs, i) == IF i > Len(xs) THEN <<0, 1>> ELSE RAdd(xs[i], SeqSum(xs, i + 1))

\* the probability mass of the assignments of the nodes order[i..] that agree
\* with fixed, given the assignment a of the nodes before them (parents come
\* before children in order); MassFrom adds up the states n.. of order[i]
RECURSIVE Mass(_, _, _, _, _)
RECURSIVE MassFrom(_, _, _, _, _, _)
MassFrom(m, order, i, a, fixed, n) ==
    LET v == order[i]
        parents == Tail(m[v].variables)
        k == [j \in 1..Len(parents) |-> a[parents[j]]]
        states == m[v].state_names[v]
    IN  IF n > Len(states) THEN <<0, 1>>
        ELSE IF v \in DOMAIN fixed /\ fixed[v] # states[n]
             THEN MassFrom(m, order, i, a, fixed, n + 1)
             ELSE RAdd(RMul(m[v].values[k][states[n]],
                            Mass(m, order, i + 1, SetKey(a, v, states[n]), fixed)),
                       MassFrom(m, order, i, a, fixed, n + 1))

Mass(m, order, i, a, fixed) ==
    IF i > Len(order) THEN <<1, 1>> ELSE MassFrom(m, order, i, a, fixed, 1)

\* x / total for each x of xs from position i on
RECURSIVE Normalised(_, _, _)
Normalised(xs, total, i) ==
    IF i > Len(xs) THEN <<>>
    ELSE <<RDiv(xs[i], total)>> \o Normalised(xs, total, i + 1)

\* the unnormalised posterior of the states values[i..] of variable
RECURSIVE Masses(_, _, _, _, _, _)
Masses(m, order, variable, evidence, values, i) ==
    IF i > Len(values) THEN <<>>
    ELSE <<Mass(m, order, 1, <<>>, SetKey(evidence, variable, values[i]))>>
         \o Masses(m, order, variable, evidence, values, i + 1)

\* VariableElimination(core).query([variable], evidence).values: the
\* posterior of variable, one probability per state in state_names order
Query(m, variable, evidence) ==
    LET kept == Ancestral(m, {variable} \cup DOMAIN evidence)
        order == SelectSeq(NodeOrder, LAMBDA v : v \in kept)
        masses == Masses(m, order, variable, evidence,
                         m[variable].state_names[variable], 1)
    IN  Normalised(masses, SeqSum(masses, 1), 1)

\* the query raises: invalid model, undeclared variable or state in the
\* evidence, or the queried variable among the evidence
QueryRaises(m, variable, evidence) ==
    \/ ~check_model(m)
    \/ variable \in DOMAIN evidence
    \/ \E e \in DOMAIN evidence :
          \/ e \notin DOMAIN m
          \/ evidence[e] \notin Range(m[e].state_names[e])

\* list.sort(key=lambda x: x[1], reverse=True): stable, descending
RECURSIVE InsertDesc(_, _)
InsertDesc_Ascending(sorted, x) ==
    IF sorted = <<>> THEN <<x>>
    ELSE IF RLess(x[2], Head(sorted)[2])
         THEN <<x>> \o sorted
         ELSE <<Head(sorted)>> \o InsertDesc(Tail(sorted), x)

InsertDesc(sorted, x) ==
    IF sorted = <<>> THEN <<x>>
    ELSE IF RLess(Head(sorted)[2], x[2])
         THEN <<x>> \o sorted
         ELSE <<Head(sorted)>> \o InsertDesc(Tail(sorted), x)

RECURSIVE SortDesc(_)
SortDesc(pairs) ==
    IF pairs = <<>> THEN <<>>
    ELSE InsertDesc(SortDesc(SubSeq(pairs, 1, Len(pairs) - 1)), pairs[Len(pairs)])

\* list(zip(values, probs)) from position i on
RECURSIVE Zip(_, _, _)
Zip(values, probs, i) ==
    IF i > Len(values) THEN <<>>
    ELSE << <<values[i], probs[i]>> >> \o Zip(values, probs, i + 1)

\* list(zip(values, probs)) sorted by probability
Ranked(m, variable, evidence) ==
    SortDesc(Zip(m[variable].state_names[variable], Query(m, variable, evidence), 1))

recommend_gender(evidence, m) == Ranked(m, "ProgramGenre", evidence)

\* the counterpart of recommend_gender for ProgramType
recommend_type(evidence, m) == Ranked(m, "ProgramType", evidence)

NullValues == {PyNone, "", "null"}

\* {k: v for k, v in attrs.items() if v not in (None, "", "null")}
recommend_by_genre(state) ==
    LET attrs == state.atributes_bn
        keep == {k \in DOMAIN attrs : attrs[k] \notin NullValues}
    IN  [k \in keep |-> attrs[k]]

\* evidence of the second query: dict(attrs) with ProgramType set
WithType(attrs, chosen_type) ==
    [k \in DOMAIN attrs \cup {"ProgramType"} |->
        IF k = "ProgramType" THEN chosen_type ELSE attrs[k]]

\* infer_with_bn raises: one of its two queries raises
InferRaises(state, m) ==
    LET attrs == recommend_by_genre(state)
    IN  /\ DOMAIN attrs # {}
        /\ \/ QueryRaises(m, "ProgramType", attrs)
           \/ QueryRaises(m, "ProgramGenre",
                          WithType(attrs, recommend_type(attrs, m)[1][1]))

infer_with_bn_Unconditioned(state, m) ==
    LET attrs == recommend_by_genre(state)
    IN  IF DOMAIN attrs = {} THEN <<>>
        ELSE LET type_recs == recommend_type(attrs, m)
                 chosen_type == type_recs[1][1]
                 genre_recs == recommend_gender(attrs, m)
                 chosen_genre == genre_recs[1][1]
             IN  [ProgramType   |-> chosen_type,
                  ProgramGenre  |-> chosen_genre,
                  type_ranking  |-> type_recs,
                  genre_ranking |-> genre_recs]

\* infer_with_bn(state, model) when it does not raise; {} is the empty
\* function
infer_with_bn(state, m) ==
    LET attrs == recommend_by_genre(state)
    IN  IF DOMAIN attrs = {} THEN <<>>
        ELSE LET type_recs == recommend_type(attrs, m)
                 chosen_type == type_recs[1][1]
                 genre_recs == recommend_gender(WithType(attrs, chosen_type), m)
                 chosen_genre == genre_recs[1][1]
             IN  [ProgramType   |-> chosen_type,
                  ProgramGenre  |-> chosen_genre,
                  type_ranking  |-> type_recs,
                  genre_ranking |-> genre_recs]

\* ------------------------------------------------------------------------
\* State
\* ------------------------------------------------------------------------
VARIABLES
    pkl,          \* the fitted model pickled in output/model.pkl
    model,        \* the DiscreteBayesianNetwork of the running program: its CPDs
    cpt_counts,   \* the count tables of the running program
    counts_file,  \* output/cpt_counts.json
    phase,        \* "running" inside main()'s loop, "stopped" after it
    ev,           \* the last operation and its arguments
    nEvents,      \* feedback events so far
    nSessions,    \* program runs so far
    threads,      \* concurrent callers of apply_feedback: position and locals
    observed,     \* the CPDs the last concurrent inference call found in the model
    session,      \* main()'s `state` dict
    content_fetcher,  \* the TMDB client of main(), or None
    structure     \* the edges of the DAG hill_climb.estimate is searching from

vars == <<pkl, model, cpt_counts, counts_file, phase, ev, nEvents, nSessions,
          threads, observed, session, content_fetcher, structure>>

\* the callers of apply_feedback in the concurrent specification
Writers == {"w1", "w2"}

\* no concurrent caller is active
Idle == [t \in Writers |-> [pc |-> "idle"]]

\* no recommendation yet: last_recommendation is None
NoRecommendation == [k \in {} |-> PyNone]

\* values the attribute extractor gives for UserAge: a state of the domain or
\* null
AgeInputs == {"senior", PyNone}
\* get_time_daytype() always yields a state of TimeOfDay
TimeInputs == {"night"}
TypeInputs == Range(DomainOf("ProgramType"))
\* a state of ProgramGenre, or the ranking entry left by the catalog fallback
GenreInputs == Range(DomainOf("ProgramGenre")) \cup {AltGenreEntry}

AttrInputs ==
    {[UserAge |-> a, TimeOfDay |-> t, ProgramType |-> PyNone] :
        a \in AgeInputs, t \in TimeInputs}

\* the `state` dicts apply_feedback is called with
FeedbackStates ==
    {[user_feedback       |-> f,
      last_recommendation |-> [ProgramType |-> pt, ProgramGenre |-> pg],
      atributes_bn        |-> at] :
        f \in {"accepted", "rejected"}, pt \in TypeInputs, pg \in GenreInputs,
        at \in AttrInputs}

\* contexts naming a label the model was not fitted on: as a parent of
\* ProgramType, and as the parent of ProgramGenre
UnseenStates ==
    {[user_feedback       |-> "accepted",
      last_recommendation |-> [ProgramType |-> "news", ProgramGenre |-> "horror"],
      atributes_bn        |-> [UserAge |-> "toddler", TimeOfDay |-> "night",
                               ProgramType |-> PyNone]],
     [user_feedback       |-> "rejected",
      last_recommendation |-> [ProgramType |-> "sport", ProgramGenre |-> "drama"],
      atributes_bn        |-> [UserAge |-> PyNone, TimeOfDay |-> "night",
                               ProgramType |-> PyNone]]}

\* calls that apply_feedback returns from at once
GuardStates ==
    {[user_feedback       |-> PyNone,
      last_recommendation |-> [ProgramType |-> "movie", ProgramGenre |-> "drama"],
      atributes_bn        |-> [UserAge |-> "senior", TimeOfDay |-> "night",
                               ProgramType |-> PyNone]],
     [user_feedback       |-> "accepted",
      last_recommendation |-> NoRecommendation,
      atributes_bn        |-> [k \in {} |-> PyNone]],
     [user_feedback       |-> "rejected",
      last_recommendation |-> [ProgramType |-> "movie"],
      atributes_bn        |-> [UserAge |-> "senior", TimeOfDay |-> "night",
                               ProgramType |-> PyNone]]}

\* ------------------------------------------------------------------------
\* main(): start-up, feedback turns, shutdown
\* ------------------------------------------------------------------------
\* the `state` dict main() starts with
InitialState ==
    [atributes_bn        |-> <<>>,
     candidates          |-> <<>>,
     last_recommendation |-> NoRecommendation,
     user_feedback       |-> PyNone,
     real_content        |-> <<>>,
     content_index       |-> 0,
     content_available   |-> FALSE]

\* content_fetcher = None: TMDBContentFetcher() raised
NoFetcher == [k \in {} |-> PyNone]

\* load_model, initialize_cpt_counts and, if the counts file exists and can be
\* read, load_cpt_counts: the count tables main() starts its loop with
StartCounts(m, file) ==
    IF file.kind = "json" THEN load_cpt_counts(file)
    ELSE initialize_cpt_counts(m, VirtualSampleSize)

Init ==
    /\ pkl \in FittedModels
    /\ model = pkl
    /\ counts_file = NoFile
    /\ cpt_counts = StartCounts(pkl, NoFile)
    /\ phase = "running"
    /\ ev = [op |-> "start"]
    /\ nEvents = 0
    /\ nSessions = 1
    /\ threads = Idle
    /\ observed = pkl
    /\ session = InitialState
    /\ content_fetcher = NoFetcher
    /\ structure = {}

\* a FEEDBACK_POS, FEEDBACK_NEG or ALTERNATIVE turn reaching apply_feedback
ApplyFeedback(state) ==
    /\ phase = "running"
    /\ nEvents < MaxEvents
    /\ LET r == apply_feedback(model, cpt_counts, state, LearningRate)
       IN  /\ model' = r.model
           /\ cpt_counts' = r.cpt_counts
    /\ ev' = [op |-> "apply_feedback", state |-> state]
    /\ nEvents' = nEvents + 1
    /\ UNCHANGED <<pkl, counts_file, phase, nSessions, threads, observed,
                   session, content_fetcher, structure>>

\* the user types "exit": the loop ends and the counts are saved
Exit ==
    /\ phase = "running"
    /\ counts_file' = save_cpt_counts(cpt_counts)
    /\ phase' = "stopped"
    /\ ev' = [op |-> "exit"]
    /\ UNCHANGED <<pkl, model, cpt_counts, nEvents, nSessions, threads, observed,
                   session, content_fetcher, structure>>

\* the program is started again
Start ==
    /\ phase # "running"
    /\ nSessions < MaxSessions
    /\ model' = pkl
    /\ cpt_counts' = StartCounts(pkl, counts_file)
    /\ phase' = "running"
    /\ ev' = [op |-> "start"]
    /\ nSessions' = nSessions + 1
    /\ session' = InitialState
    /\ UNCHANGED <<pkl, counts_file, nEvents, threads, observed, content_fetcher, structure>>

Next ==
    \/ \E state \in FeedbackStates \cup UnseenStates \cup GuardStates :
          ApplyFeedback(state)
    \/ Exit
    \/ Start

Spec == Init /\ [][Next]_vars

\* ------------------------------------------------------------------------
\* content_fetch.py and main.py: the catalog and the turns of the session
\* ------------------------------------------------------------------------
\* TYPE_MAPPING.get(program_type, "tv")
MediaType(program_type) == IF program_type = "movie" THEN "movie" ELSE "tv"

\* the genre id of the discover request: None for a genre that is not a key
\* of GENRE_MAPPING
GenreId(program_genre) ==
    IF program_genre \in Range(DomainOf("ProgramGenre")) THEN program_genre
    ELSE PyNone

MediaTypes == {"movie", "tv"}
GenreIds == Range(DomainOf("ProgramGenre")) \cup {PyNone}

\* a TMDB client: what the catalog answers to each discover and trending
\* request (an empty list also when the request fails)
Fetcher(discover, trending) == [discover |-> discover, trending |-> trending]

\* the catalog answers nothing
FetcherNothing ==
    Fetcher([q \in MediaTypes \X GenreIds |-> <<>>], [t \in MediaTypes |-> <<>>])
\* one title for every discover request
FetcherAll ==
    Fetcher([q \in MediaTypes \X GenreIds |-> <<"title1">>],
            [t \in MediaTypes |-> <<"title3">>])
\* nothing under a genre filter, one title without filter
FetcherUnfiltered ==
    Fetcher([q \in MediaTypes \X GenreIds |->
                IF q[2] = PyNone THEN <<"title1">> ELSE <<>>],
            [t \in MediaTypes |-> <<"title3">>])
\* only trending titles
FetcherTrending ==
    Fetcher([q \in MediaTypes \X GenreIds |-> <<>>],
            [t \in MediaTypes |-> <<"title3", "title4">>])

Fetchers == {FetcherNothing, FetcherAll, FetcherUnfiltered, FetcherTrending}

\* content_fetcher.get_content_by_recommendation(program_type, program_genre)
get_content_by_recommendation(fetcher, program_type, program_genre) ==
    fetcher.discover[<<MediaType(program_type), GenreId(program_genre)>>]

\* content_fetcher.get_trending(media_type, "week")
get_trending(fetcher, media_type) == fetcher.trending[media_type]

\* fetch_real_content(bn_result, content_fetcher, fallback_to_alternatives):
\* the list it returns and bn_result as it leaves it
fetch_real_content(bn_result, fetcher, fallback_to_alternatives) ==
    LET program_type == DictGet(bn_result, "ProgramType")
        program_genre == DictGet(bn_result, "ProgramGenre")
        none == [content |-> <<>>, bn_result |-> bn_result]
    IN  IF Falsy(program_type) \/ Falsy(program_genre) THEN none
        ELSE LET content == get_content_by_recommendation(fetcher, program_type,
                                                          program_genre)
             IN  IF content # <<>> THEN [content |-> content, bn_result |-> bn_result]
                 ELSE IF ~fallback_to_alternatives THEN none
                 ELSE LET genre_ranking == IF "genre_ranking" \in DOMAIN bn_result
                                           THEN bn_result.genre_ranking ELSE <<>>
                          \* genre_ranking[1:4]
                          alts == SubSeq(genre_ranking, 2,
                                         IF Len(genre_ranking) < 4
                                         THEN Len(genre_ranking) ELSE 4)
                          found == {i \in 1..Len(alts) :
                                      get_content_by_recommendation(fetcher,
                                          program_type, EntryLabel[alts[i][1]]) # <<>>}
                      IN  IF found # {}
                          THEN LET i == CHOOSE j \in found : \A k \in found : j <= k
                                   alt_genre == EntryLabel[alts[i][1]]
                               IN  [content   |-> get_content_by_recommendation(
                                                     fetcher, program_type, alt_genre),
                                    bn_result |-> SetKey(bn_result, "ProgramGenre",
                                                         alt_genre)]
                          ELSE LET trending == get_trending(fetcher,
                                                   MediaType(program_type))
                               IN  IF trending # <<>>
                                   THEN [content |-> trending, bn_result |-> bn_result]
                                   ELSE none

\* the assignment to state["last_recommendation"][k] left out
SetIfRecommended_Never(last_rec, k, v) == last_rec

\* state["last_recommendation"][k] = v under `if state.get("last_recommendation")`
SetIfRecommended(last_rec, k, v) ==
    IF DOMAIN last_rec # {} THEN SetKey(last_rec, k, v) ELSE last_rec

\* d.get(k, []) of a ranking
RankingOf(d, k) == IF k \in DOMAIN d THEN d[k] ELSE <<>>

\* the last resort of try_next_alternative: the next type of the ranking.
\* st is the state and bn_result the candidates as the genre step left them
NextTypeStep(st, bn_result, current_genre, fetcher) ==
    LET genre_ranking == RankingOf(bn_result, "genre_ranking")
        type_ranking == RankingOf(bn_result, "type_ranking")
        current_type == DictGet(bn_result, "ProgramType")
        current_idx == RankingIndex(type_ranking, current_type)
        fail == [ret |-> FALSE, state |-> [st EXCEPT !.candidates = bn_result]]
    IN  IF current_idx = 0 \/ current_idx + 1 > Len(type_ranking) THEN fail
        ELSE LET next_type == EntryLabel[type_ranking[current_idx + 1][1]]
                 first_genre == IF genre_ranking # <<>>
                                THEN EntryLabel[genre_ranking[1][1]]
                                ELSE current_genre
                 bn2 == SetKey(SetKey(bn_result, "ProgramType", next_type),
                               "ProgramGenre", first_genre)
                 r == fetch_real_content(bn2, fetcher, TRUE)
             IN  IF r.content = <<>>
                 THEN [ret |-> FALSE, state |-> [st EXCEPT !.candidates = r.bn_result]]
                 ELSE [ret |-> TRUE,
                       state |-> [st EXCEPT
                          !.real_content = r.content,
                          !.content_index = 0,
                          !.candidates = r.bn_result,
                          !.last_recommendation =
                             SetIfRecommended(
                               SetIfRecommended(
                                 SetIfRecommended(@, "ProgramType", next_type),
                                 "ProgramGenre", r.bn_result.ProgramGenre),
                               "content", r.content[1])]]

\* try_next_alternative(state, content_fetcher): the value returned and the
\* state dict afterwards
try_next_alternative(state, fetcher) ==
    LET content_index == state.content_index + 1
        real_content == state.real_content
        st == [state EXCEPT !.content_index = content_index]
    IN  IF real_content # <<>> /\ content_index < Len(real_content)
        THEN [ret |-> TRUE,
              state |-> [st EXCEPT !.last_recommendation =
                            SetIfRecommended(@, "content",
                                             real_content[content_index + 1])]]
        ELSE LET bn_result == st.candidates
                 genre_ranking == RankingOf(bn_result, "genre_ranking")
                 current_genre == DictGet(bn_result, "ProgramGenre")
                 current_idx == RankingIndex(genre_ranking, current_genre)
             IN  IF current_idx = 0 \/ current_idx + 1 > Len(genre_ranking)
                 THEN NextTypeStep(st, bn_result, current_genre, fetcher)
                 ELSE LET next_genre == EntryLabel[genre_ranking[current_idx + 1][1]]
                          bn1 == SetKey(bn_result, "ProgramGenre", next_genre)
                          r == fetch_real_content(bn1, fetcher, FALSE)
                      IN  IF r.content = <<>>
                          THEN NextTypeStep(st, bn1, current_genre, fetcher)
                          ELSE [ret |-> TRUE,
                                state |-> [st EXCEPT
                                   !.real_content = r.content,
                                   !.content_index = 0,
                                   !.candidates = bn1,
                                   !.last_recommendation =
                                      SetIfRecommended(
                                        SetIfRecommended(@, "ProgramGenre", next_genre),
                                        "content", r.content[1])]]

\* the ALTERNATIVE turn without catalog content: the next genre of the ranking
NextGenreOnly(state) ==
    LET bn_result == state.candidates
        genre_ranking == RankingOf(bn_result, "genre_ranking")
        current_genre == DictGet(bn_result, "ProgramGenre")
        current_idx == RankingIndex(genre_ranking, current_genre)
    IN  IF current_idx = 0 \/ current_idx + 1 > Len(genre_ranking) THEN state
        ELSE LET next_genre == EntryLabel[genre_ranking[current_idx + 1][1]]
             IN  [state EXCEPT
                    !.candidates = SetKey(bn_result, "ProgramGenre", next_genre),
                    !.last_recommendation =
                        SetIfRecommended(@, "ProgramGenre", next_genre)]

\* what extract_attributes_llm may return for a message: a state of the
\* domain, null, the string "null", an empty string, or a value the model was
\* not fitted on; a genre when the user names one
ExtractedAttributes ==
    {[UserAge |-> a, ProgramType |-> PyNone, ProgramGenre |-> PyNone] :
        a \in {"senior", PyNone, "null", "", "toddler"}}
    \cup {[UserAge |-> "senior", ProgramType |-> PyNone, ProgramGenre |-> "comedy"]}

\* atributes["TimeOfDay"] = time_of_day
RecommendInputs ==
    {SetKey(a, "TimeOfDay", t) : a \in ExtractedAttributes, t \in TimeInputs}

InitSession ==
    /\ pkl \in FittedModels
    /\ model = pkl
    /\ counts_file = NoFile
    /\ cpt_counts = StartCounts(pkl, NoFile)
    /\ phase = "running"
    /\ ev = [op |-> "start"]
    /\ nEvents = 0
    /\ nSessions = 1
    /\ threads = Idle
    /\ observed = pkl
    /\ session = InitialState
    /\ content_fetcher \in {NoFetcher} \cup Fetchers
    /\ structure = {}

SessionFrame == UNCHANGED <<pkl, counts_file, nSessions, threads, observed,
                            content_fetcher, structure>>

\* the RECOMMEND turn setting last_recommendation only when a title was found
Recommended_ContentOnly(state, bn_result, fetcher) ==
    LET r == IF DOMAIN fetcher # {} THEN fetch_real_content(bn_result, fetcher, TRUE)
             ELSE [content |-> <<>>, bn_result |-> bn_result]
    IN  [state EXCEPT
           !.candidates = r.bn_result,
           !.real_content = r.content,
           !.content_index = 0,
           !.content_available = (Len(r.content) > 0),
           !.last_recommendation =
               IF r.content # <<>>
               THEN [ProgramType  |-> r.bn_result.ProgramType,
                     ProgramGenre |-> r.bn_result.ProgramGenre,
                     content      |-> r.content[1]]
               ELSE @,
           !.user_feedback = PyNone]

\* the state dict after a RECOMMEND turn whose inference returned bn_result
Recommended(state, bn_result, fetcher) ==
    IF DOMAIN fetcher # {}
    THEN LET r == fetch_real_content(bn_result, fetcher, TRUE)
             rec == [ProgramType  |-> r.bn_result.ProgramType,
                     ProgramGenre |-> r.bn_result.ProgramGenre]
         IN  [state EXCEPT
                !.candidates = r.bn_result,
                !.real_content = r.content,
                !.content_index = 0,
                !.content_available = (Len(r.content) > 0),
                !.last_recommendation =
                    IF r.content # <<>> THEN SetKey(rec, "content", r.content[1])
                    ELSE rec,
                !.user_feedback = PyNone]
    ELSE [state EXCEPT
            !.candidates = bn_result,
            !.real_content = <<>>,
            !.content_available = FALSE,
            !.last_recommendation = [ProgramType  |-> bn_result.ProgramType,
                                     ProgramGenre |-> bn_result.ProgramGenre],
            !.user_feedback = PyNone]

\* the model object a RECOMMEND turn reads as it was loaded from model.pkl
InferenceModel_Pickled == pkl

\* the model object a RECOMMEND turn hands to infer_with_bn: the one
\* apply_feedback updates
InferenceModel == model

\* a RECOMMEND turn.  An exception of infer_with_bn, or the KeyError of
\* bn_result["ProgramType"] on an empty result, leaves main()
Recommend(atributes) ==
    /\ phase = "running"
    /\ LET st == [session EXCEPT !.atributes_bn = atributes]
           m == InferenceModel
       IN  IF InferRaises(st, m)
           THEN /\ session' = st
                /\ phase' = "crashed"
                /\ ev' = [op |-> "recommend", atributes |-> atributes,
                          raised |-> TRUE, bn_result |-> <<>>]
           ELSE LET bn_result == infer_with_bn(st, m)
                IN  IF DOMAIN bn_result = {}
                    THEN /\ session' = [st EXCEPT !.candidates = bn_result]
                         /\ phase' = "crashed"
                         /\ ev' = [op |-> "recommend", atributes |-> atributes,
                                   raised |-> TRUE, bn_result |-> <<>>]
                    ELSE /\ session' = Recommended(st, bn_result, content_fetcher)
                         /\ phase' = phase
                         /\ ev' = [op |-> "recommend", atributes |-> atributes,
                                   raised |-> FALSE, bn_result |-> bn_result]
    /\ UNCHANGED <<model, cpt_counts, nEvents>>
    /\ SessionFrame

\* the ALTERNATIVE turn written with the switch before the feedback
Alternative_SwitchFirst ==
    /\ phase = "running"
    /\ nEvents < MaxTurns
    /\ LET st == [session EXCEPT !.user_feedback = "rejected"]
           next == IF DOMAIN content_fetcher # {} /\ st.content_available
                   THEN LET t == try_next_alternative(st, content_fetcher)
                        IN  [t.state EXCEPT !.content_available = t.ret]
                   ELSE NextGenreOnly(st)
           r == apply_feedback(model, cpt_counts, next, LearningRate)
       IN  /\ model' = r.model
           /\ cpt_counts' = r.cpt_counts
           /\ session' = next
           /\ ev' = [op |-> "apply_feedback", state |-> st, turn |-> "ALTERNATIVE"]
    /\ nEvents' = nEvents + 1
    /\ phase' = phase
    /\ SessionFrame

\* an ALTERNATIVE turn: the rejection is applied, then the next alternative
\* is looked for
Alternative ==
    /\ phase = "running"
    /\ nEvents < MaxTurns
    /\ LET st == [session EXCEPT !.user_feedback = "rejected"]
           r == apply_feedback(model, cpt_counts, st, LearningRate)
       IN  /\ model' = r.model
           /\ cpt_counts' = r.cpt_counts
           /\ session' =
                IF DOMAIN content_fetcher # {} /\ st.content_available
                THEN LET t == try_next_alternative(st, content_fetcher)
                     IN  [t.state EXCEPT !.content_available = t.ret]
                ELSE NextGenreOnly(st)
           /\ ev' = [op |-> "apply_feedback", state |-> st, turn |-> "ALTERNATIVE"]
    /\ nEvents' = nEvents + 1
    /\ phase' = phase
    /\ SessionFrame

\* a FEEDBACK_POS ("accepted") or FEEDBACK_NEG ("rejected") turn
Feedback(feedback) ==
    /\ phase = "running"
    /\ nEvents < MaxTurns
    /\ LET st == [session EXCEPT !.user_feedback = feedback]
           r == apply_feedback(model, cpt_counts, st, LearningRate)
       IN  /\ model' = r.model
           /\ cpt_counts' = r.cpt_counts
           /\ session' = st
           /\ ev' = [op |-> "apply_feedback", state |-> st,
                     turn |-> IF feedback = "accepted" THEN "FEEDBACK_POS"
                              ELSE "FEEDBACK_NEG"]
    /\ nEvents' = nEvents + 1
    /\ phase' = phase
    /\ SessionFrame

NextSession ==
    \/ \E atributes \in RecommendInputs : Recommend(atributes)
    \/ Alternative
    \/ \E feedback \in {"accepted", "rejected"} : Feedback(feedback)
    \/ Exit
    \/ Start

SpecSession == InitSession /\ [][NextSession]_vars

\* ------------------------------------------------------------------------
\* Concurrent callers: apply_feedback on two threads and an inference call
\* on a third, interleaved at the shared reads and writes of feedback.py.
\* The functions take no lock.
\* ------------------------------------------------------------------------
\* the `state` dicts of the concurrent callers: same context, same
\* recommendation
ConcStates ==
    {[user_feedback       |-> f,
      last_recommendation |-> [ProgramType |-> "news", ProgramGenre |-> "horror"],
      atributes_bn        |-> [UserAge |-> "senior", TimeOfDay |-> "night",
                               ProgramType |-> PyNone]] :
        f \in {"accepted", "rejected"}}

\* a caller entering update_program_type_cpd
Entering(state) ==
    [pc |-> "check", var |-> "ProgramType", state |-> state, tmp |-> <<0, 1>>,
     alts |-> <<>>, boost |-> <<0, 1>>, new_cpd |-> NoCPD]

InitConc ==
    /\ pkl \in FittedModels
    /\ model = pkl
    /\ counts_file = NoFile
    /\ cpt_counts = StartCounts(pkl, NoFile)
    /\ phase = "running"
    /\ ev = [op |-> "start"]
    /\ nEvents = 0
    /\ nSessions = 1
    /\ threads \in [Writers -> {Entering(state) : state \in ConcStates}]
    /\ observed = pkl
    /\ session = InitialState
    /\ content_fetcher = NoFetcher
    /\ structure = {}

\* the label and the parent state the caller t is working on
LabelOf(t) == threads[t].state.last_recommendation[threads[t].var]

KeyOf(t) ==
    LET attrs == threads[t].state.atributes_bn
        program_type == threads[t].state.last_recommendation.ProgramType
    IN  IF threads[t].var = "ProgramType"
        THEN build_parent_state(cpt_counts["ProgramType"].parents, attrs)
        ELSE build_parent_state(cpt_counts["ProgramGenre"].parents,
                                [attrs EXCEPT !["ProgramType"] = program_type])

\* cpt["counts"][parent_state][label] = value
StoreCount(t, label, value) ==
    LET v == threads[t].var
        k == KeyOf(t)
        row == cpt_counts[v].counts[k]
    IN  cpt_counts' = [cpt_counts EXCEPT ![v].counts[k] =
                          [l \in DOMAIN row \cup {label} |->
                              IF l = label THEN value ELSE row[l]]]

\* the caller after returning from the update of its variable: apply_feedback
\* goes on to update_program_genre_cpd, then returns
Returned(th) ==
    IF th.var = "ProgramType"
    THEN [th EXCEPT !.pc = "check", !.var = "ProgramGenre"]
    ELSE [th EXCEPT !.pc = "done"]

ConcFrame ==
    UNCHANGED <<pkl, counts_file, phase, ev, nEvents, nSessions, session,
                content_fetcher, structure>>

\* if parent_state not in cpt["counts"]: return
CheckKey(t) ==
    /\ threads[t].pc = "check"
    /\ threads' = [threads EXCEPT ![t] =
          IF KeyOf(t) \notin DOMAIN cpt_counts[threads[t].var].counts
          THEN Returned(threads[t])
          ELSE [threads[t] EXCEPT !.pc =
                   IF threads[t].state.user_feedback = "accepted"
                   THEN "acc_read" ELSE "rej_read"]]
    /\ UNCHANGED <<model, cpt_counts, observed>>
    /\ ConcFrame

\* counts[parent_state][label] += learning_rate: the read
AccRead(t) ==
    /\ threads[t].pc = "acc_read"
    /\ threads' = [threads EXCEPT ![t].pc = "acc_write",
                                  ![t].tmp = CountOf(cpt_counts[threads[t].var].counts[KeyOf(t)],
                                                     LabelOf(t))]
    /\ UNCHANGED <<model, cpt_counts, observed>>
    /\ ConcFrame

\* counts[parent_state][label] += learning_rate: the write
AccWrite(t) ==
    /\ threads[t].pc = "acc_write"
    /\ StoreCount(t, LabelOf(t), RAdd(threads[t].tmp, Rat(LearningRate)))
    /\ threads' = [threads EXCEPT ![t].pc = "build"]
    /\ UNCHANGED <<model, observed>>
    /\ ConcFrame

\* current = counts[parent_state][label]
RejRead(t) ==
    /\ threads[t].pc = "rej_read"
    /\ threads' = [threads EXCEPT ![t].pc = "rej_write",
                                  ![t].tmp = CountOf(cpt_counts[threads[t].var].counts[KeyOf(t)],
                                                     LabelOf(t))]
    /\ UNCHANGED <<model, cpt_counts, observed>>
    /\ ConcFrame

\* counts[parent_state][label] = max(1, current - penalty), and the locals
\* alternatives and boost_per_alt
RejWrite(t) ==
    /\ threads[t].pc = "rej_write"
    /\ LET current == threads[t].tmp
           penalty == Penalty(current, LearningRate)
           all_states == cpt_counts[threads[t].var].state_names[threads[t].var]
           alternatives == SelectSeq(all_states, LAMBDA x : x # LabelOf(t))
       IN  /\ StoreCount(t, LabelOf(t), RMax(Rat(1), RSub(current, penalty)))
           /\ threads' = [threads EXCEPT
                 ![t].pc = IF alternatives # <<>> THEN "alt_read" ELSE "build",
                 ![t].alts = alternatives,
                 ![t].boost = IF alternatives # <<>>
                              THEN RDiv(penalty, Rat(Len(alternatives)))
                              ELSE <<0, 1>>]
    /\ UNCHANGED <<model, observed>>
    /\ ConcFrame

\* counts[parent_state][alt] += boost_per_alt: the read
AltRead(t) ==
    /\ threads[t].pc = "alt_read"
    /\ threads' = [threads EXCEPT ![t].pc = "alt_write",
                                  ![t].tmp = CountOf(cpt_counts[threads[t].var].counts[KeyOf(t)],
                                                     Head(threads[t].alts))]
    /\ UNCHANGED <<model, cpt_counts, observed>>
    /\ ConcFrame

\* counts[parent_state][alt] += boost_per_alt: the write, and the loop step
AltWrite(t) ==
    /\ threads[t].pc = "alt_write"
    /\ StoreCount(t, Head(threads[t].alts), RAdd(threads[t].tmp, threads[t].boost))
    /\ threads' = [threads EXCEPT
          ![t].pc = IF Tail(threads[t].alts) # <<>> THEN "alt_read" ELSE "build",
          ![t].alts = Tail(threads[t].alts)]
    /\ UNCHANGED <<model, observed>>
    /\ ConcFrame

\* new_cpd = build_cpd_from_counts(variable, cpt)
Build(t) ==
    /\ threads[t].pc = "build"
    /\ threads' = [threads EXCEPT
          ![t].pc = "remove",
          ![t].new_cpd = build_cpd_from_counts(threads[t].var,
                                               cpt_counts[threads[t].var])]
    /\ UNCHANGED <<model, cpt_counts, observed>>
    /\ ConcFrame

\* model.remove_cpds(variable); with no CPD of the variable in the model the
\* list removal raises and the caller leaves apply_feedback
RemoveCpds(t) ==
    /\ threads[t].pc = "remove"
    /\ IF model[threads[t].var] = NoCPD
       THEN /\ threads' = [threads EXCEPT ![t].pc = "raised"]
            /\ UNCHANGED model
       ELSE /\ model' = [model EXCEPT ![threads[t].var] = NoCPD]
            /\ threads' = [threads EXCEPT ![t].pc = "add"]
    /\ UNCHANGED <<cpt_counts, observed>>
    /\ ConcFrame

\* model.add_cpds(new_cpd)
AddCpds(t) ==
    /\ threads[t].pc = "add"
    /\ model' = [model EXCEPT ![threads[t].var] = threads[t].new_cpd]
    /\ threads' = [threads EXCEPT ![t] = Returned(threads[t])]
    /\ UNCHANGED <<cpt_counts, observed>>
    /\ ConcFrame

\* an inference call on another thread collects full_model.get_cpds()
ReadModel ==
    /\ observed' = model
    /\ UNCHANGED <<model, cpt_counts, threads>>
    /\ ConcFrame

NextConc ==
    \/ \E t \in Writers :
          \/ CheckKey(t)
          \/ AccRead(t)
          \/ AccWrite(t)
          \/ RejRead(t)
          \/ RejWrite(t)
          \/ AltRead(t)
          \/ AltWrite(t)
          \/ Build(t)
          \/ RemoveCpds(t)
          \/ AddCpds(t)
    \/ ReadModel

SpecConc == InitConc /\ [][NextConc]_vars

\* ------------------------------------------------------------------------
\* Vocabulary of the properties
\* ------------------------------------------------------------------------
\* the variables apply_feedback adapts
Adapted == {"ProgramType", "ProgramGenre"}

Zero == <<0, 1>>
One == <<1, 1>>

\* e is a call of apply_feedback that got past its guards
IsFeedback(e) ==
    /\ e.op = "apply_feedback"
    /\ e.state.user_feedback \in {"accepted", "rejected"}
    /\ DOMAIN e.state.last_recommendation = {"ProgramType", "ProgramGenre"}

Signal(e) == e.state.user_feedback

\* the recommended state of variable v in the event
EvLabel(v, e) == e.state.last_recommendation[v]

NullToNone(x) == IF x \in {PyNone, "", "null"} THEN PyNone ELSE x

\* the parent-state key of variable v that the event's context gives
EvKey(v, e) ==
    IF v = "ProgramType"
    THEN <<NullToNone(e.state.atributes_bn.UserAge),
           NullToNone(e.state.atributes_bn.TimeOfDay)>>
    ELSE <<e.state.last_recommendation.ProgramType>>

\* e is a feedback event whose key is a row of cc's table of v
Hit(v, e, cc) == IsFeedback(e) /\ EvKey(v, e) \in DOMAIN cc[v].counts

\* e is a feedback event whose key is no row of cc's table of v
Miss(v, e, cc) == IsFeedback(e) /\ EvKey(v, e) \notin DOMAIN cc[v].counts

InDomain(v, label) == label \in Range(DomainOf(v))

\* a column of a CPD is a probability distribution
ValidColumn(col) ==
    /\ \A s \in DOMAIN col : RLeq(Zero, col[s]) /\ RLeq(col[s], One)
    /\ RSum(col, DOMAIN col) = One

ValidCPD(cpd) == \A k \in DOMAIN cpd.values : ValidColumn(cpd.values[k])

\* the model's CPD of v is the normalisation of the count table of v
InSync(v, m, cc) == m[v] = build_cpd_from_counts(v, cc[v])

\* ------------------------------------------------------------------------
\* C1: after any sequence of apply_feedback calls every column of the
\* ProgramType and ProgramGenre CPDs held by the model has its entries in
\* [0,1] and sums to 1.
\* ------------------------------------------------------------------------
C1_CPDsStayValid == \A v \in Adapted : ValidCPD(model[v])

\* ------------------------------------------------------------------------
\* C2: a rejected event on a row whose counts normalise to the model's CPD
\* strictly decreases the probability of the rejected state in that row, and
\* the probability stays strictly positive.
\* ------------------------------------------------------------------------
C2_RejectedDecreases ==
    [][\A v \in Adapted :
        (/\ Hit(v, ev', cpt_counts)
         /\ Signal(ev') = "rejected"
         /\ InDomain(v, EvLabel(v, ev'))
         /\ InSync(v, model, cpt_counts))
        => LET k == EvKey(v, ev')
               l == EvLabel(v, ev')
           IN  /\ RLess(model'[v].values[k][l], model[v].values[k][l])
               /\ RLess(Zero, model'[v].values[k][l])]_vars

\* ------------------------------------------------------------------------
\* C3: an accepted event on a row whose counts normalise to the model's CPD
\* strictly increases the probability of the accepted state in that row, and
\* the probability never exceeds 1.
\* ------------------------------------------------------------------------
C3_AcceptedIncreases ==
    [][\A v \in Adapted :
        (/\ Hit(v, ev', cpt_counts)
         /\ Signal(ev') = "accepted"
         /\ InDomain(v, EvLabel(v, ev'))
         /\ InSync(v, model, cpt_counts))
        => LET k == EvKey(v, ev')
               l == EvLabel(v, ev')
           IN  /\ RLess(model[v].values[k][l], model'[v].values[k][l])
               /\ RLeq(model'[v].values[k][l], One)]_vars

\* two accepted events in a row for comedy given movie: 50 -> 100 -> 150
C3_Witness ==
    /\ IsFeedback(ev)
    /\ Signal(ev) = "accepted"
    /\ EvLabel("ProgramGenre", ev) = "comedy"
    /\ EvKey("ProgramGenre", ev) = <<"movie">>
    /\ nSessions = 1
    /\ cpt_counts["ProgramGenre"].counts[<<"movie">>]["comedy"] = <<150, 1>>

\* ------------------------------------------------------------------------
\* C4: when the parent-state key of the context is no row of the variable's
\* count table, the feedback event adds no row, changes no count and leaves
\* the model's CPD of that variable as it was.
\* ------------------------------------------------------------------------
C4_AbsentKeyNoOp ==
    [][\A v \in Adapted :
        Miss(v, ev', cpt_counts)
        => /\ cpt_counts'[v] = cpt_counts[v]
           /\ model'[v] = model[v]]_vars

\* both variables have met an absent key: a missing UserAge for ProgramType
\* and an unfitted ProgramType for ProgramGenre
C4_Witness ==
    /\ IsFeedback(ev)
    /\ EvKey("ProgramType", ev) = <<PyNone, "night">>
    /\ EvKey("ProgramGenre", ev) = <<"sport">>
    /\ Miss("ProgramType", ev, cpt_counts)
    /\ Miss("ProgramGenre", ev, cpt_counts)

\* ------------------------------------------------------------------------
\* C5: a rejected event on a present key leaves the recommended state's
\* count at max(1, current - min(learning_rate * 0.5, 20% of current)), never
\* below 1 and never above the count before the event.
\* ------------------------------------------------------------------------
C5_RejectedCountFloored ==
    [][\A v \in Adapted :
        (/\ Hit(v, ev', cpt_counts)
         /\ Signal(ev') = "rejected"
         /\ InDomain(v, EvLabel(v, ev')))
        => LET k == EvKey(v, ev')
               l == EvLabel(v, ev')
               current == CountOf(cpt_counts[v].counts[k], l)
               fifth == RMul(current, <<1, 5>>)
               half == RMul(Rat(LearningRate), <<1, 2>>)
               penalty == IF RLess(fifth, half) THEN fifth ELSE half
               after == CountOf(cpt_counts'[v].counts[k], l)
           IN  /\ after = RMax(One, RSub(current, penalty))
               /\ RLeq(One, after)
               /\ RLeq(after, current)]_vars

\* ------------------------------------------------------------------------
\* C6 as claimed: a rejected event leaves the sum of the counts of the row it
\* touches unchanged.
\* ------------------------------------------------------------------------
C6_RejectedConservesMass ==
    [][\A v \in Adapted :
        (/\ Hit(v, ev', cpt_counts)
         /\ Signal(ev') = "rejected"
         /\ InDomain(v, EvLabel(v, ev')))
        => LET k == EvKey(v, ev')
           IN  RowTotal(cpt_counts'[v].counts[k]) = RowTotal(cpt_counts[v].counts[k])]_vars

\* ------------------------------------------------------------------------
\* C6 amended: a rejected event adds an equal share penalty / (number of other
\* states) of the penalty min(learning_rate * 0.5, 20% of current) to every
\* other state of the variable; the sum of the row is unchanged when
\* current - penalty >= 1 and otherwise grows by 1 - (current - penalty), the
\* amount by which the floor lifts the rejected state's count.
\* ------------------------------------------------------------------------
C6_RejectedSharesPenalty ==
    [][\A v \in Adapted :
        (Hit(v, ev', cpt_counts) /\ Signal(ev') = "rejected")
        => LET k == EvKey(v, ev')
               l == EvLabel(v, ev')
               row == cpt_counts[v].counts[k]
               rowAfter == cpt_counts'[v].counts[k]
               current == CountOf(row, l)
               fifth == RMul(current, <<1, 5>>)
               half == RMul(Rat(LearningRate), <<1, 2>>)
               penalty == IF RLess(fifth, half) THEN fifth ELSE half
               others == Range(DomainOf(v)) \ {l}
               lowered == RSub(current, penalty)
           IN  /\ \A o \in others :
                     RSub(rowAfter[o], row[o]) = RDiv(penalty, Rat(Cardinality(others)))
               /\ \A o \in DOMAIN row \ (others \cup {l}) : rowAfter[o] = row[o]
               /\ IF RLeq(One, lowered)
                  THEN RowTotal(rowAfter) = RowTotal(row)
                  ELSE RowTotal(rowAfter) = RAdd(RowTotal(row), RSub(One, lowered))]_vars

\* a rejected comedy given news: the count 1.2 is floored at 1 and the row
\* grows from 100 to 100.04
C6_Witness ==
    /\ IsFeedback(ev)
    /\ Signal(ev) = "rejected"
    /\ EvLabel("ProgramGenre", ev) = "comedy"
    /\ EvKey("ProgramGenre", ev) = <<"news">>
    /\ cpt_counts["ProgramGenre"].counts[<<"news">>]["comedy"] = One
    /\ RowTotal(cpt_counts["ProgramGenre"].counts[<<"news">>]) = <<2501, 25>>

\* ------------------------------------------------------------------------
\* C7: a concurrent reader of the model never finds it without a CPD for an
\* adapted variable while a feedback update is in progress.
\* ------------------------------------------------------------------------
C7_ReaderFindsEveryCPD == \A v \in Adapted : observed[v] # NoCPD

\* ------------------------------------------------------------------------
\* C8: when two concurrent feedback events have both returned, the count
\* tables and the model's CPDs are those of applying the two events one after
\* the other in some order.
\* ------------------------------------------------------------------------
C8_ConcurrentIsSerial ==
    (\A t \in Writers : threads[t].pc = "done")
    => LET start == [model |-> pkl, cpt_counts |-> StartCounts(pkl, NoFile)]
           After(r, t) == apply_feedback(r.model, r.cpt_counts,
                                         threads[t].state, LearningRate)
           r12 == After(After(start, "w1"), "w2")
           r21 == After(After(start, "w2"), "w1")
       IN  \/ (cpt_counts = r12.cpt_counts /\ model = r12.model)
           \/ (cpt_counts = r21.cpt_counts /\ model = r21.model)

\* ------------------------------------------------------------------------
\* C9: after a restart that loaded a persisted counts file, and before any
\* new feedback, the model's CPD of each adapted variable is the one obtained
\* by normalising the loaded counts.
\* ------------------------------------------------------------------------
C9_RestartResumesLearnedCPDs ==
    (ev.op = "start" /\ counts_file.kind = "json")
    => \A v \in Adapted : InSync(v, model, cpt_counts)

\* ------------------------------------------------------------------------
\* C10: saving the count tables and loading them back gives the same tables
\* (variables, parents, state names, parent-state keys as tuples, counts),
\* and the CPDs rebuilt from the loaded tables are those rebuilt from the
\* tables before saving.
\* ------------------------------------------------------------------------
C10_SaveLoadRoundTrip ==
    LET file == save_cpt_counts(cpt_counts)
    IN  /\ file.kind = "json"
        /\ load_cpt_counts(file) = cpt_counts
        /\ \A v \in DOMAIN cpt_counts :
              build_cpd_from_counts(v, load_cpt_counts(file)[v])
                  = build_cpd_from_counts(v, cpt_counts[v])

\* ------------------------------------------------------------------------
\* C11: when inference fails on a RECOMMEND turn the failure is caught: the
\* turn ends with no recommendation made and the session loop keeps running.
\* ------------------------------------------------------------------------
C11_InferenceFailureIsCaught ==
    (ev.op = "recommend" /\ ev.raised)
    => (phase = "running" /\ DOMAIN session.candidates = {})

\* ------------------------------------------------------------------------
\* C12: infer_with_bn conditions sequentially.  The type ranking is the
\* posterior of ProgramType under the non-null evidence, the chosen type is
\* its first entry, the genre ranking is the posterior of ProgramGenre given
\* the chosen type, the chosen genre is its first entry, and both rankings
\* are complete.
\* ------------------------------------------------------------------------
C12_SequentialConditioning ==
    (ev.op = "recommend" /\ ~ev.raised)
    => LET r == ev.bn_result
           attrs == ev.atributes
           chosen == r.type_ranking[1][1]
           type_cpd == model["ProgramType"]
           genre_cpd == model["ProgramGenre"]
           ages == IF attrs["UserAge"] \in NullValues
                   THEN Range(DomainOf("UserAge")) ELSE {attrs["UserAge"]}
           \* P(type, evidence) summed over the unobserved UserAge
           joint == [t \in Range(DomainOf("ProgramType")) |->
                       RSum([a \in ages |->
                               RMul(model["UserAge"].values[<<>>][a],
                                    type_cpd.values[<<a, attrs["TimeOfDay"]>>][t])],
                            ages)]
           column == genre_cpd.values[<<chosen>>]
       IN  /\ r.ProgramType = chosen
           /\ r.ProgramGenre = r.genre_ranking[1][1]
           /\ {r.type_ranking[i][1] : i \in 1..Len(r.type_ranking)}
                 = Range(DomainOf("ProgramType"))
           /\ {r.genre_ranking[i][1] : i \in 1..Len(r.genre_ranking)}
                 = Range(DomainOf("ProgramGenre"))
           /\ \A i \in 1..Len(r.type_ranking) :
                 r.type_ranking[i][2]
                    = RDiv(joint[r.type_ranking[i][1]],
                           RSum(joint, Range(DomainOf("ProgramType"))))
           /\ \A i \in 1..Len(r.genre_ranking) :
                 r.genre_ranking[i][2]
                    = RDiv(column[r.genre_ranking[i][1]],
                           RSum(column, Range(DomainOf("ProgramGenre"))))

\* a RECOMMEND turn whose UserAge is the string "null" chose news and horror
C12_Witness ==
    /\ ev.op = "recommend"
    /\ ~ev.raised
    /\ ev.atributes["UserAge"] = "null"
    /\ ev.bn_result.ProgramType = "news"
    /\ ev.bn_result.ProgramGenre = "horror"

\* ------------------------------------------------------------------------
\* C13: the evidence of the inference is the set of attributes whose value
\* is not None, "" or "null", and every such evidence over declared
\* variables and states is accepted: the inference does not fail.
\* ------------------------------------------------------------------------
C13_AnySubsetAccepted ==
    (/\ ev.op = "recommend"
     /\ \A k \in DOMAIN ev.atributes :
           \/ ev.atributes[k] \in NullValues
           \/ (k \in Nodes /\ ev.atributes[k] \in Range(DomainOf(k))))
    => ~ev.raised

\* ------------------------------------------------------------------------
\* C14: the count update of a feedback turn is the update for the
\* recommendation and the evidence the session holds when the turn begins;
\* an ALTERNATIVE turn rejects the recommendation in effect before it moves
\* to the next alternative.
\* ------------------------------------------------------------------------
C14_FeedbackOnCurrentRecommendation ==
    [][(ev'.op = "apply_feedback" /\ "turn" \in DOMAIN ev')
       => LET given == [user_feedback       |-> IF ev'.turn = "FEEDBACK_POS"
                                                THEN "accepted" ELSE "rejected",
                        last_recommendation |-> session.last_recommendation,
                        atributes_bn        |-> session.atributes_bn]
              r == apply_feedback(model, cpt_counts, given, LearningRate)
          IN  /\ cpt_counts' = r.cpt_counts
              /\ model' = r.model]_vars

\* an ALTERNATIVE turn rejected one genre and then moved on to another
C14_Witness ==
    /\ ev.op = "apply_feedback"
    /\ "turn" \in DOMAIN ev
    /\ ev.turn = "ALTERNATIVE"
    /\ DOMAIN ev.state.last_recommendation # {}
    /\ session.last_recommendation.ProgramGenre
          # ev.state.last_recommendation.ProgramGenre
    /\ ev.state.last_recommendation.ProgramGenre
          \in DOMAIN cpt_counts["ProgramGenre"].counts[
                        <<ev.state.last_recommendation.ProgramType>>]
    /\ model # pkl

\* ------------------------------------------------------------------------
\* C15: an inference call made after a feedback event replaced a CPD ranks
\* by the CPDs the model holds now, never by a replaced one.
\* ------------------------------------------------------------------------
C15_InferenceReadsCurrentCPDs ==
    [][(ev'.op = "recommend" /\ ~ev'.raised)
       => LET r == ev'.bn_result
              column == model["ProgramGenre"].values[<<r.ProgramType>>]
              total == RSum(column, Range(DomainOf("ProgramGenre")))
              age == ev'.atributes["UserAge"]
          IN  /\ \A i \in 1..Len(r.genre_ranking) :
                    r.genre_ranking[i][2]
                       = RDiv(column[r.genre_ranking[i][1]], total)
              /\ age \notin NullValues
                 => \A i \in 1..Len(r.type_ranking) :
                       r.type_ranking[i][2]
                          = model["ProgramType"].values[
                               <<age, ev'.atributes["TimeOfDay"]>>][
                               r.type_ranking[i][1]]]_vars

\* a RECOMMEND turn ranked genres by a column that feedback has changed
C15_Witness ==
    /\ ev.op = "recommend"
    /\ ~ev.raised
    /\ model["ProgramGenre"].values[<<ev.bn_result.ProgramType>>]
          # pkl["ProgramGenre"].values[<<ev.bn_result.ProgramType>>]
    /\ model["ProgramType"] # pkl["ProgramType"]

\* ------------------------------------------------------------------------
\* C16: with no catalog client, or one that answers nothing to every
\* request, a RECOMMEND turn completes and last_recommendation is the
\* top-ranked type and the top-ranked genre, with no content attached.
\* ------------------------------------------------------------------------
NoCatalog ==
    \/ DOMAIN content_fetcher = {}
    \/ /\ \A q \in DOMAIN content_fetcher.discover : content_fetcher.discover[q] = <<>>
       /\ \A t \in DOMAIN content_fetcher.trending : content_fetcher.trending[t] = <<>>

C16_NoCatalogStillRecommends ==
    (ev.op = "recommend" /\ ~ev.raised /\ NoCatalog)
    => /\ phase = "running"
       /\ session.last_recommendation
             = [ProgramType  |-> ev.bn_result.type_ranking[1][1],
                ProgramGenre |-> ev.bn_result.genre_ranking[1][1]]
       /\ session.real_content = <<>>

\* a RECOMMEND turn completed with a catalog client that answers nothing
C16_Witness ==
    /\ ev.op = "recommend"
    /\ ~ev.raised
    /\ DOMAIN content_fetcher # {}
    /\ NoCatalog
    /\ DOMAIN session.last_recommendation = {"ProgramType", "ProgramGenre"}

\* ------------------------------------------------------------------------
\* C18: the ranking of a queried variable lists every state of its domain
\* exactly once, each with its posterior probability, in non-increasing
\* order of probability.
\* ------------------------------------------------------------------------
C18_RankingCompleteAndSorted ==
    (ev.op = "recommend" /\ ~ev.raised)
    => LET ranking == ev.bn_result.genre_ranking
           states == DomainOf("ProgramGenre")
           column == model["ProgramGenre"].values[<<ev.bn_result.ProgramType>>]
           total == RSum(column, Range(states))
       IN  /\ Len(ranking) = Len(states)
           /\ \A n \in 1..Len(states) :
                 Cardinality({i \in 1..Len(ranking) : ranking[i][1] = states[n]}) = 1
           /\ \A i \in 1..Len(ranking) :
                 ranking[i][2] = RDiv(column[ranking[i][1]], total)
           /\ \A i \in 1..(Len(ranking) - 1) :
                 RLeq(ranking[i + 1][2], ranking[i][2])

\* a ranking whose order is not the order of the state names, with distinct
\* probabilities
C18_Witness ==
    /\ ev.op = "recommend"
    /\ ~ev.raised
    /\ ev.bn_result.genre_ranking[1][1] = "horror"
    /\ RLess(ev.bn_result.genre_ranking[3][2], ev.bn_result.genre_ranking[2][2])
    /\ RLess(ev.bn_result.genre_ranking[2][2], ev.bn_result.genre_ranking[1][2])

\* ------------------------------------------------------------------------
\* C19: build_parent_state gives one entry per parent in the parents' order;
\* an absent, None, "" or "null" context value becomes the None sentinel,
\* which is no label of the parent's domain, and any other value is passed
\* through.
\* ------------------------------------------------------------------------
C19_ParentStateSentinel ==
    (ev.op = "apply_feedback" /\ "turn" \in DOMAIN ev)
    => LET parents == cpt_counts["ProgramType"].parents
           attrs == ev.state.atributes_bn
           parent_state == build_parent_state(parents, attrs)
       IN  /\ Len(parent_state) = Len(parents)
           /\ \A i \in 1..Len(parents) :
                 IF parents[i] \notin DOMAIN attrs
                    \/ attrs[parents[i]] \in {PyNone, "", "null"}
                 THEN /\ parent_state[i] = PyNone
                      /\ parent_state[i] \notin Range(DomainOf(parents[i]))
                 ELSE parent_state[i] = attrs[parents[i]]

\* feedback was applied in a context whose UserAge is the empty string
C19_Witness ==
    /\ ev.op = "apply_feedback"
    /\ "turn" \in DOMAIN ev
    /\ DOMAIN ev.state.last_recommendation # {}
    /\ "UserAge" \in DOMAIN ev.state.atributes_bn
    /\ ev.state.atributes_bn["UserAge"] = ""
    /\ ev.state.atributes_bn["TimeOfDay"] = "night"

\* ------------------------------------------------------------------------
\* C20: try_next_alternative returns False only when the content list is
\* exhausted and no genre ranked after the current genre and no type ranked
\* after the current type has content in the catalog.
\* ------------------------------------------------------------------------
C20_FalseOnlyWhenNothingLeft ==
    [][(/\ ev'.op = "apply_feedback"
        /\ "turn" \in DOMAIN ev'
        /\ ev'.turn = "ALTERNATIVE"
        /\ DOMAIN content_fetcher # {}
        /\ session.content_available
        /\ ~session'.content_available)
       => LET bn_result == session.candidates
              genre_ranking == RankingOf(bn_result, "genre_ranking")
              type_ranking == RankingOf(bn_result, "type_ranking")
              IsAt(ranking, i, x) ==
                  ranking[i][1] = x \/ EntryLabel[ranking[i][1]] = x
              later_genres ==
                  {j \in 1..Len(genre_ranking) :
                      \E i \in 1..(j - 1) :
                         IsAt(genre_ranking, i, bn_result.ProgramGenre)}
              later_types ==
                  {j \in 1..Len(type_ranking) :
                      \E i \in 1..(j - 1) :
                         IsAt(type_ranking, i, bn_result.ProgramType)}
          IN  /\ session.content_index + 1 >= Len(session.real_content)
              /\ \A j \in later_genres :
                    get_content_by_recommendation(content_fetcher,
                        bn_result.ProgramType, genre_ranking[j][1]) = <<>>
              /\ \A j \in later_types :
                    get_content_by_recommendation(content_fetcher,
                        type_ranking[j][1], genre_ranking[1][1]) = <<>>]_vars

\* ------------------------------------------------------------------------
\* Structure learning (graph_builder.py)
\* ------------------------------------------------------------------------
PROFILE_CONTEXT ==
    {"UserAge", "UserGender", "HouseholdType", "TimeOfDay", "DayType"}

CONTENT == {"ProgramType", "ProgramGenre", "ProgramDuration"}

\* the columns of the data frame handed to learn_structure_restricted
BN_COLUMNS == PROFILE_CONTEXT \cup CONTENT

WHITELIST ==
    {<<"UserAge", "ProgramType">>,
     <<"UserGender", "ProgramType">>,
     <<"HouseholdType", "ProgramType">>,
     <<"TimeOfDay", "ProgramType">>,
     <<"DayType", "ProgramType">>,
     <<"ProgramType", "ProgramGenre">>,
     <<"ProgramType", "ProgramDuration">>}

\* BLACKLIST as its first loop alone fills it
BLACKLIST_FirstLoop ==
    {e \in (PROFILE_CONTEXT \cup CONTENT) \X PROFILE_CONTEXT : e[1] # e[2]}

\* the two loops filling BLACKLIST
BLACKLIST ==
    {e \in (PROFILE_CONTEXT \cup CONTENT) \X PROFILE_CONTEXT : e[1] # e[2]}
    \cup {<<"ProgramDuration", node>> : node \in PROFILE_CONTEXT \cup CONTENT}

\* the search called without expert knowledge, as learn_structure calls it
expert_knowledge_None ==
    [required_edges |-> {}, forbidden_edges |-> {}]

expert_knowledge ==
    [required_edges |-> WHITELIST, forbidden_edges |-> BLACKLIST]

RECURSIVE Descendants(_, _)
Descendants(edges, seen) ==
    LET next == seen \cup {e[2] : e \in {d \in edges : d[1] \in seen}}
    IN  IF next = seen THEN seen ELSE Descendants(edges, next)

\* nx.has_path
HasPath(edges, a, b) == b \in Descendants(edges, {a})

\* the operations HillClimbSearch may apply to a DAG: add an absent edge that
\* closes no cycle and is not forbidden, remove an edge that is not required,
\* flip an edge that is not required, whose reverse is not forbidden and
\* closes no cycle
legal_operations(dag, knowledge) ==
    {[op |-> "+", edge |-> e] :
        e \in {d \in BN_COLUMNS \X BN_COLUMNS :
                 /\ d[1] # d[2]
                 /\ d \notin dag
                 /\ <<d[2], d[1]>> \notin dag
                 /\ ~HasPath(dag, d[2], d[1])
                 /\ d \notin knowledge.forbidden_edges}}
    \cup {[op |-> "-", edge |-> e] :
        e \in {d \in dag : d \notin knowledge.required_edges}}
    \cup {[op |-> "flip", edge |-> e] :
        e \in {d \in dag :
                 /\ ~HasPath(dag \ {d}, d[1], d[2])
                 /\ d \notin knowledge.required_edges
                 /\ <<d[2], d[1]>> \notin knowledge.forbidden_edges}}

ApplyOperation(dag, operation) ==
    CASE operation.op = "+" -> dag \cup {operation.edge}
      [] operation.op = "-" -> dag \ {operation.edge}
      [] operation.op = "flip" ->
            (dag \ {operation.edge})
            \cup {<<operation.edge[2], operation.edge[1]>>}

\* hill_climb.estimate starts from the DAG of the required edges
InitLearn ==
    /\ pkl \in FittedModels
    /\ model = pkl
    /\ counts_file = NoFile
    /\ cpt_counts = StartCounts(pkl, NoFile)
    /\ phase = "stopped"
    /\ ev = [op |-> "estimate"]
    /\ nEvents = 0
    /\ nSessions = 1
    /\ threads = Idle
    /\ observed = pkl
    /\ session = InitialState
    /\ content_fetcher = NoFetcher
    /\ structure = expert_knowledge.required_edges

LearnFrame ==
    UNCHANGED <<pkl, model, cpt_counts, counts_file, phase, nEvents, nSessions,
                threads, observed, session, content_fetcher>>

\* one iteration of the search: the best-scoring legal operation is applied;
\* which one that is depends on the data
HillClimbStep ==
    /\ ev.op = "estimate"
    /\ \E operation \in legal_operations(structure, expert_knowledge) :
          structure' = ApplyOperation(structure, operation)
    /\ UNCHANGED ev
    /\ LearnFrame

\* no operation improves the score any more: estimate returns and
\* learn_structure_restricted returns the edges
learn_structure_restricted ==
    /\ ev.op = "estimate"
    /\ ev' = [op |-> "learn_structure_restricted", edges |-> structure]
    /\ UNCHANGED structure
    /\ LearnFrame

NextLearn ==
    \/ HillClimbStep
    \/ learn_structure_restricted

SpecLearn == InitLearn /\ [][NextLearn]_vars

\* ------------------------------------------------------------------------
\* C17: the edge list returned by learn_structure_restricted contains every
\* WHITELIST edge and no BLACKLIST edge.
\* ------------------------------------------------------------------------
C17_WhitelistInBlacklistOut ==
    ev.op = "learn_structure_restricted"
    => /\ WHITELIST \subseteq ev.edges
       /\ ev.edges \cap BLACKLIST = {}

\* the search returned a structure with learned edges beyond the whitelist
C17_Witness ==
    /\ ev.op = "learn_structure_restricted"
    /\ <<"UserAge", "ProgramGenre">> \in ev.edges
    /\ <<"ProgramGenre", "ProgramDuration">> \in ev.edges

\* ------------------------------------------------------------------------
\* C21: in genre-only mode an ALTERNATIVE turn whose current genre is not the
\* last entry of the genre ranking sets candidates.ProgramGenre and
\* last_recommendation.ProgramGenre to the genre ranked immediately after
\* the current one.
\* ------------------------------------------------------------------------
C21_GenreOnlyWalksRanking ==
    [][(/\ ev'.op = "apply_feedback"
        /\ "turn" \in DOMAIN ev'
        /\ ev'.turn = "ALTERNATIVE"
        /\ ~(DOMAIN content_fetcher # {} /\ session.content_available)
        /\ DOMAIN session.candidates # {}
        /\ DOMAIN session.last_recommendation # {})
       => LET genre_ranking == session.candidates.genre_ranking
              current_genre == session.candidates.ProgramGenre
              at == {i \in 1..Len(genre_ranking) :
                        \/ genre_ranking[i][1] = current_genre
                        \/ EntryLabel[genre_ranking[i][1]] = current_genre}
          IN  \A i \in at :
                 i < Len(genre_ranking)
                 => LET next == {genre_ranking[i + 1][1],
                                 EntryLabel[genre_ranking[i + 1][1]]}
                    IN  /\ session'.candidates.ProgramGenre \in next
                        /\ session'.last_recommendation.ProgramGenre \in next]_vars

\* ------------------------------------------------------------------------
\* smart_alternative.py: skipping a rejected genre
\* ------------------------------------------------------------------------
\* the loop `for next_idx in range(current_idx + 1, len(genre_ranking))`
\* from position next_idx (counted from 1); bn_result is the candidates dict
\* as the earlier iterations left it
RECURSIVE TryNextGenres(_, _, _, _, _, _)
TryNextGenres(st, bn_result, genre_ranking, next_idx, rejected_genre, fetcher) ==
    IF next_idx > Len(genre_ranking)
    THEN [ret |-> FALSE, state |-> [st EXCEPT !.candidates = bn_result]]
    ELSE LET next_genre == EntryLabel[genre_ranking[next_idx][1]]
         IN  IF ~Falsy(rejected_genre) /\ next_genre = rejected_genre
             THEN TryNextGenres(st, bn_result, genre_ranking, next_idx + 1,
                                rejected_genre, fetcher)
             ELSE LET bn1 == SetKey(bn_result, "ProgramGenre", next_genre)
                      r == fetch_real_content(bn1, fetcher, FALSE)
                  IN  IF r.content = <<>>
                      THEN TryNextGenres(st, bn1, genre_ranking, next_idx + 1,
                                         rejected_genre, fetcher)
                      ELSE [ret |-> TRUE,
                            state |-> [st EXCEPT
                               !.real_content = r.content,
                               !.content_index = 0,
                               !.candidates = bn1,
                               !.last_recommendation =
                                  SetIfRecommended(
                                    SetIfRecommended(@, "ProgramGenre", next_genre),
                                    "content", r.content[1])]]

\* the first position the loop of get_next_different_genre tries:
\* range(current_idx + 1, ...) with current_idx = 0 on ValueError
FirstTried(current_idx) == IF current_idx = 0 THEN 2 ELSE current_idx + 1

\* get_next_different_genre(state, content_fetcher, rejected_genre): the
\* value returned and the state dict afterwards.  Its type step is the code
\* of try_next_alternative's type step
get_next_different_genre(state, fetcher, rejected_genre) ==
    LET bn_result == state.candidates
        genre_ranking == RankingOf(bn_result, "genre_ranking")
        current_genre == DictGet(bn_result, "ProgramGenre")
        current_idx == RankingIndex(genre_ranking, current_genre)
        g == TryNextGenres(state, bn_result, genre_ranking,
                           FirstTried(current_idx), rejected_genre, fetcher)
    IN  IF g.ret THEN g
        ELSE NextTypeStep(g.state, g.state.candidates, current_genre, fetcher)

\* a turn in which the user rejects a genre and get_next_different_genre is
\* called with it
SkipGenre(rejected_genre) ==
    /\ phase = "running"
    /\ DOMAIN content_fetcher # {}
    /\ session.content_available
    /\ LET r == get_next_different_genre(session, content_fetcher, rejected_genre)
       IN  /\ session' = r.state
           /\ ev' = [op |-> "get_next_different_genre", state |-> session,
                     rejected_genre |-> rejected_genre, ret |-> r.ret]
    /\ UNCHANGED <<model, cpt_counts, nEvents, phase>>
    /\ SessionFrame

NextSkip ==
    \/ \E atributes \in RecommendInputs : Recommend(atributes)
    \/ Alternative
    \/ \E rejected_genre \in Range(DomainOf("ProgramGenre")) :
          SkipGenre(rejected_genre)

SpecSkip == InitSession /\ [][NextSkip]_vars

\* ------------------------------------------------------------------------
\* C22: whenever get_next_different_genre is called with a rejected genre
\* and returns True, the ProgramGenre it leaves in candidates and in
\* last_recommendation is not the rejected genre.
\* ------------------------------------------------------------------------
C22_RejectedGenreNotOffered ==
    (ev.op = "get_next_different_genre" /\ ev.ret)
    => LET rejected == {ev.rejected_genre, EntryLabel[ev.rejected_genre]}
       IN  /\ session.candidates.ProgramGenre \notin rejected
           /\ DOMAIN session.last_recommendation # {}
              => session.last_recommendation.ProgramGenre \notin rejected

\* ------------------------------------------------------------------------
\* C23: whenever apply_feedback updates a count, the ProgramType and
\* ProgramGenre it reads from last_recommendation are labels of the
\* variable's domain; no RECOMMEND or ALTERNATIVE turn puts a value outside
\* the domain into last_recommendation, and no count is created for a label
\* outside the domain.
\* ------------------------------------------------------------------------
C23_RecommendedLabelsInDomain ==
    /\ DOMAIN session.last_recommendation # {}
       => \A v \in Adapted : InDomain(v, session.last_recommendation[v])
    /\ (/\ ev.op = "apply_feedback"
        /\ "turn" \in DOMAIN ev
        /\ DOMAIN ev.state.last_recommendation # {})
       => \A v \in Adapted : InDomain(v, ev.state.last_recommendation[v])
    /\ \A v \in Adapted :
          \A k \in DOMAIN cpt_counts[v].counts :
             DOMAIN cpt_counts[v].counts[k] \subseteq Range(DomainOf(v))

\* ------------------------------------------------------------------------
\* C24: on every inference call issued by infer_with_bn the queried variable
\* is not one of the evidence variables: ProgramType is not in the evidence
\* of the ProgramType query and ProgramGenre is not in the evidence of the
\* ProgramGenre query, whatever the extractor returned.
\* ------------------------------------------------------------------------
C24_QueriedVariableNotObserved ==
    ev.op = "recommend"
    => LET attrs == recommend_by_genre([atributes_bn |-> ev.atributes])
       IN  DOMAIN attrs # {}
           => /\ "ProgramType" \notin DOMAIN attrs
              /\ ~QueryRaises(InferenceModel, "ProgramType", attrs)
                 => "ProgramGenre" \notin
                       DOMAIN WithType(attrs,
                                       recommend_type(attrs, InferenceModel)[1][1])

\* ------------------------------------------------------------------------
\* C25: in a session whose counts were initialised from the model, after
\* every apply_feedback call the CPD the model holds for each adapted
\* variable is the column-wise normalisation of that variable's count
\* table: for every parent-state combination, each state's probability is
\* its count divided by the sum of the counts of the variable's states.
\* ------------------------------------------------------------------------
C25_CPDIsNormalisedCounts ==
    nSessions = 1
    => \A v \in Adapted :
          \A k \in ParentCombinations(cpt_counts[v].parents,
                                      cpt_counts[v].state_names) :
             LET row == cpt_counts[v].counts[k]
                 states == Range(cpt_counts[v].state_names[v])
                 total == RSum(row, states)
             IN  \A s \in states : model[v].values[k][s] = RDiv(row[s], total)

\* ------------------------------------------------------------------------
\* C26: apply_feedback changes neither the count tables nor the model's CPDs
\* when the signal is neither accepted nor rejected, when there is no last
\* recommendation, or when the last recommendation lacks a ProgramType or a
\* ProgramGenre.
\* ------------------------------------------------------------------------
C26_GuardedCallChangesNothing ==
    [][(/\ ev'.op = "apply_feedback"
        /\ LET last_rec == ev'.state.last_recommendation
           IN  \/ ev'.state.user_feedback \notin {"accepted", "rejected"}
               \/ DOMAIN last_rec = {}
               \/ Falsy(DictGet(last_rec, "ProgramType"))
               \/ Falsy(DictGet(last_rec, "ProgramGenre")))
       => /\ model' = model
          /\ cpt_counts' = cpt_counts]_vars

\* a call with a recommendation that has no ProgramGenre, made after the
\* model has learned from an earlier event
C26_Witness ==
    /\ ev.op = "apply_feedback"
    /\ ev.state.user_feedback = "rejected"
    /\ DOMAIN ev.state.last_recommendation = {"ProgramType"}
    /\ model # pkl

\* ------------------------------------------------------------------------
\* C27: an accepted event on a present key adds exactly learning_rate to the
\* count of the recommended state in the keyed row and leaves every other
\* count of that variable unchanged: the other states of that row and all
\* other rows.
\* ------------------------------------------------------------------------
C27_AcceptedAddsLearningRate ==
    [][\A v \in Adapted :
        (Hit(v, ev', cpt_counts) /\ Signal(ev') = "accepted")
        => LET k == EvKey(v, ev')
               l == EvLabel(v, ev')
               before == cpt_counts[v].counts
               after == cpt_counts'[v].counts
           IN  /\ after[k][l] = RAdd(CountOf(before[k], l), Rat(LearningRate))
               /\ DOMAIN after = DOMAIN before
               /\ DOMAIN after[k] = DOMAIN before[k] \cup {l}
               /\ \A s \in DOMAIN before[k] \ {l} : after[k][s] = before[k][s]
               /\ \A j \in DOMAIN before \ {k} : after[j] = before[j]]_vars

\* the first accepted event of "news" for a senior at night: the count is
\* the initial one plus the learning rate
C27_Witness ==
    /\ IsFeedback(ev)
    /\ Signal(ev) = "accepted"
    /\ nEvents = 1
    /\ EvKey("ProgramType", ev) = <<"senior", "night">>
    /\ EvLabel("ProgramType", ev) = "news"
    /\ cpt_counts["ProgramType"].counts[<<"senior", "night">>]["news"]
          = RAdd(RMul(pkl["ProgramType"].values[<<"senior", "night">>]["news"],
                      Rat(VirtualSampleSize)),
                 Rat(LearningRate))

\* feedback events behind the models that counts are initialised from
MaxLearned == 1

\* values of virtual_sample_size
SampleSizes == {1, 3, VirtualSampleSize}

\* ------------------------------------------------------------------------
\* C28: for a model with valid CPDs and a virtual_sample_size > 0,
\* initialising counts from the CPDs and rebuilding each CPD from its counts
\* gives back the original CPD, every count row sums to virtual_sample_size,
\* and each count table has one row for every parent-state combination.
\* The models are the fitted ones and those that have learned from up to
\* MaxLearned feedback events.
\* ------------------------------------------------------------------------
C28_InitialiseRebuildRoundTrip ==
    (/\ nEvents <= MaxLearned
     /\ \A v \in Nodes : model[v] # NoCPD => ValidCPD(model[v]))
    => \A virtual_sample_size \in SampleSizes :
          LET cc == initialize_cpt_counts(model, virtual_sample_size)
          IN  \A v \in DOMAIN cc :
                 /\ build_cpd_from_counts(v, cc[v]) = model[v]
                 /\ DOMAIN cc[v].counts
                       = ParentCombinations(cc[v].parents, cc[v].state_names)
                 /\ \A k \in DOMAIN cc[v].counts :
                       RowTotal(cc[v].counts[k]) = Rat(virtual_sample_size)

\* a model that feedback has changed and whose CPDs are valid
C28_Witness ==
    /\ IsFeedback(ev)
    /\ model # pkl
    /\ \A v \in Nodes : model[v] # NoCPD /\ ValidCPD(model[v])
    /\ DOMAIN initialize_cpt_counts(model, VirtualSampleSize) = Nodes

\* ------------------------------------------------------------------------
\* C29: whenever state.content_available is true, last_recommendation is
\* set, 0 <= content_index < len(real_content), and
\* last_recommendation.content is the item real_content[content_index].
\* ------------------------------------------------------------------------
C29_ContentIndexConsistent ==
    session.content_available
    => /\ DOMAIN session.last_recommendation # {}
       /\ 0 <= session.content_index
       /\ session.content_index < Len(session.real_content)
       /\ "content" \in DOMAIN session.last_recommendation
       /\ session.last_recommendation.content
             = session.real_content[session.content_index + 1]

\* an ALTERNATIVE turn has moved to the second title of the list
C29_Witness ==
    /\ session.content_available
    /\ ev.op = "apply_feedback"
    /\ "turn" \in DOMAIN ev
    /\ ev.turn = "ALTERNATIVE"
    /\ session.content_index = 1
    /\ session.last_recommendation.content = "title4"

\* nx.is_directed_acyclic_graph
Acyclic(edges) == \A e \in edges : ~HasPath(edges, e[2], e[1])

ParentsIn(edges, node) == {e[1] : e \in {d \in edges : d[2] = node}}
ChildrenIn(edges, node) == {e[2] : e \in {d \in edges : d[1] = node}}

\* ------------------------------------------------------------------------
\* C30: every edge set that contains all WHITELIST edges, contains no
\* BLACKLIST edge and is acyclic gives ProgramType exactly the parents
\* UserAge, UserGender, HouseholdType, TimeOfDay and DayType, gives no
\* profile/context variable any parent, and gives ProgramDuration no child;
\* and no edge is both in WHITELIST and in BLACKLIST.
\* ------------------------------------------------------------------------
C30_ConstraintsFixTheSkeleton ==
    /\ WHITELIST \cap BLACKLIST = {}
    /\ (/\ WHITELIST \subseteq structure
        /\ structure \cap BLACKLIST = {}
        /\ Acyclic(structure))
       => /\ ParentsIn(structure, "ProgramType")
                = {"UserAge", "UserGender", "HouseholdType", "TimeOfDay", "DayType"}
          /\ \A node \in PROFILE_CONTEXT : ParentsIn(structure, node) = {}
          /\ ChildrenIn(structure, "ProgramDuration") = {}

\* the largest structure the constraints allow: every profile/context
\* variable is a parent of all three content variables
C30_Witness ==
    /\ WHITELIST \subseteq structure
    /\ structure \cap BLACKLIST = {}
    /\ Acyclic(structure)
    /\ Cardinality(structure) = 18

====
